---- MODULE Spec2Model ----
(***************************************************************************)
(* Model of the record-matching engine: schema_detection.py (header        *)
(* mapping), fuzzy_matcher.py (normalisation, address/name scoring, the    *)
(* per-strategy combiner, run_specific_match) and the drivers that call    *)
(* them.                                                                   *)
(*                                                                         *)
(* Strings are sequences of one-character strings.  Scores are the floats  *)
(* of the code held in fixed point: an integer n stands for n / Scale.     *)
(* The similarity primitives fuzz.ratio, fuzz.token_set_ratio and          *)
(* process.extract are those of rapidfuzz 3.x (no default preprocessing),  *)
(* computed as the library computes them.                                  *)
(***************************************************************************)
EXTENDS Integers, Sequences, FiniteSets, TLC

(***************************************************************************)
(* Characters and elementary string operations (Python str methods).       *)
(***************************************************************************)
Chars ==
  << " ", "#", ",", "-", ".",
     "0", "1", "2", "3", "4", "5", "6", "7", "8", "9",
     "?",
     "A", "B", "C", "D", "E", "F", "G", "H", "I", "J", "K", "L", "M",
     "N", "O", "P", "Q", "R", "S", "T", "U", "V", "W", "X", "Y", "Z",
     "_",
     "a", "b", "c", "d", "e", "f", "g", "h", "i", "j", "k", "l", "m",
     "n", "o", "p", "q", "r", "s", "t", "u", "v", "w", "x", "y", "z" >>

\* ord(c), as the position in Chars
OrdMap == [c \in {Chars[i] : i \in 1..Len(Chars)} |-> CHOOSE i \in 1..Len(Chars) : Chars[i] = c] @@ << >>

Ord(c) == OrdMap[c]

Digits == {"0", "1", "2", "3", "4", "5", "6", "7", "8", "9"}

UpperLetters ==
  {"A", "B", "C", "D", "E", "F", "G", "H", "I", "J", "K", "L", "M",
   "N", "O", "P", "Q", "R", "S", "T", "U", "V", "W", "X", "Y", "Z"}

LowerLetters ==
  {"a", "b", "c", "d", "e", "f", "g", "h", "i", "j", "k", "l", "m",
   "n", "o", "p", "q", "r", "s", "t", "u", "v", "w", "x", "y", "z"}

IsSpace(c) == c = " "

\* str.upper / str.lower on one character
UpperMap == [c \in DOMAIN OrdMap |-> IF c \in LowerLetters THEN Chars[OrdMap[c] - 27] ELSE c] @@ << >>

LowerMap == [c \in DOMAIN OrdMap |-> IF c \in UpperLetters THEN Chars[OrdMap[c] + 27] ELSE c] @@ << >>

UpperChar(c) == UpperMap[c]

LowerChar(c) == LowerMap[c]

Upper(s) == SubSeq([i \in 1..Len(s) |-> UpperChar(s[i])], 1, Len(s))

Lower(s) == SubSeq([i \in 1..Len(s) |-> LowerChar(s[i])], 1, Len(s))

DigitVal(c) == Ord(c) - Ord("0")

\* s[i:] and s[:i] with 1-based positions
From(s, i) == SubSeq(s, i, Len(s))

Upto(s, i) == SubSeq(s, 1, i)

\* str.strip(chars): drop leading and trailing characters that are in cs
StripChars(s, cs) ==
  LET keep == {i \in 1..Len(s) : s[i] \notin cs}
      Min(S) == CHOOSE x \in S : \A y \in S : x <= y
      Max(S) == CHOOSE x \in S : \A y \in S : x >= y
  IN  IF keep = {} THEN << >> ELSE SubSeq(s, Min(keep), Max(keep))

\* str.strip()
Strip(s) == StripChars(s, {" "})

\* does t occur in s at position i
StartsAt(s, i, t) ==
  /\ i >= 1
  /\ i + Len(t) - 1 <= Len(s)
  /\ \A k \in 1..Len(t) : s[i + k - 1] = t[k]

\* str.replace(old, new): every non-overlapping occurrence, left to right
RECURSIVE ReplaceFrom(_, _, _, _)
ReplaceFrom(s, i, old, new) ==
  IF i > Len(s) THEN << >>
  ELSE IF StartsAt(s, i, old)
       THEN new \o ReplaceFrom(s, i + Len(old), old, new)
       ELSE << s[i] >> \o ReplaceFrom(s, i + 1, old, new)

Replace(s, old, new) == ReplaceFrom(s, 1, old, new)

\* str.split(): the whitespace-delimited tokens, in order
RECURSIVE SplitFrom(_, _, _)
SplitFrom(s, i, cur) ==
  IF i > Len(s)
  THEN IF cur = << >> THEN << >> ELSE << cur >>
  ELSE IF IsSpace(s[i])
       THEN (IF cur = << >> THEN << >> ELSE << cur >>) \o SplitFrom(s, i + 1, << >>)
       ELSE SplitFrom(s, i + 1, Append(cur, s[i]))

Split(s) == SplitFrom(s, 1, << >>)

\* sep.join(parts)
RECURSIVE Join(_, _)
Join(parts, sep) ==
  IF parts = << >> THEN << >>
  ELSE IF Len(parts) = 1 THEN parts[1]
       ELSE parts[1] \o sep \o Join(Tail(parts), sep)

\* s.split(',')[0]
BeforeComma(s) ==
  LET cs == {i \in 1..Len(s) : s[i] = ","}
  IN  IF cs = {} THEN s
      ELSE Upto(s, (CHOOSE i \in cs : \A j \in cs : i <= j) - 1)

\* re.sub(r"\s+", " ", s)
RECURSIVE CollapseFrom(_, _)
CollapseFrom(s, i) ==
  IF i > Len(s) THEN << >>
  ELSE IF IsSpace(s[i])
       THEN IF i > 1 /\ IsSpace(s[i - 1])
            THEN CollapseFrom(s, i + 1)
            ELSE << " " >> \o CollapseFrom(s, i + 1)
       ELSE << s[i] >> \o CollapseFrom(s, i + 1)

CollapseSpaces(s) == CollapseFrom(s, 1)

\* string order of Python (by code point), used by sorted()
RECURSIVE StrLess(_, _)
StrLess(a, b) ==
  IF a = << >> THEN b # << >>
  ELSE IF b = << >> THEN FALSE
       ELSE IF a[1] = b[1] THEN StrLess(Tail(a), Tail(b))
            ELSE Ord(a[1]) < Ord(b[1])

\* sorted(set_of_strings)
RECURSIVE SortedStrs(_)
SortedStrs(S) ==
  IF S = {} THEN << >>
  ELSE LET m == CHOOSE x \in S : \A y \in S \ {x} : StrLess(x, y)
       IN  << m >> \o SortedStrs(S \ {m})

Range(f) == {f[i] : i \in DOMAIN f}

(***************************************************************************)
(* Scores.  A float score x of the code is the integer floor(x * Scale).   *)
(***************************************************************************)
Scale == 10000

Pct(n) == n * Scale

MinOf(a, b) == IF a <= b THEN a ELSE b

MaxOf(a, b) == IF a >= b THEN a ELSE b

\* x * (num / 10), the float products of the code (0.8, 0.5, 0.2, 0.7)
Tenths(x, num) == (x * num) \div 10

(***************************************************************************)
(* rapidfuzz primitives: the Indel (LCS) similarity behind fuzz.ratio,     *)
(* and fuzz.token_set_ratio.                                               *)
(***************************************************************************)
\* one row of the LCS table from the row above it: entry j + 1 is the LCS
\* length of the prefix read so far and b[1..j].  prev is non-decreasing,
\* so the usual recurrence max(prev[j], cur[j-1], prev[j-1] + 1 on a match)
\* unrolls to the maximum below.
LcsRow(x, b, prev) ==
  SubSeq([c \in 1..(Len(b) + 1) |->
            LET hits == {prev[k] + 1 : k \in {h \in 1..(c - 1) : b[h] = x}}
                all == hits \cup {prev[c]}
            IN  CHOOSE v \in all : \A w \in all : v >= w],
         1, Len(b) + 1)

RECURSIVE LcsFrom(_, _, _, _)
LcsFrom(a, b, i, prev) ==
  IF i > Len(a) THEN prev[Len(b) + 1]
  ELSE LET row == LcsRow(a[i], b, prev)
       IN  \* the test has the row computed before the next one is started
           IF Len(row) = 0 THEN 0 ELSE LcsFrom(a, b, i + 1, row)

\* length of a longest common subsequence
LCS(a, b) == LcsFrom(a, b, 1, SubSeq([j \in 1..(Len(b) + 1) |-> 0], 1, Len(b) + 1))

\* insertions + deletions turning a into b
IndelDistance(a, b) == Len(a) + Len(b) - 2 * LCS(a, b)

\* 100 - 100 * dist / lensum, and 100 for two empty strings
NormDistance(dist, lensum) ==
  IF lensum > 0 THEN (Pct(100) * (lensum - dist)) \div lensum ELSE Pct(100)

\* fuzz.ratio(s1, s2)
ratio(s1, s2) == NormDistance(IndelDistance(s1, s2), Len(s1) + Len(s2))

\* fuzz.token_set_ratio(s1, s2)
token_set_ratio(s1, s2) ==
  LET tokens_a == Range(Split(s1))
      tokens_b == Range(Split(s2))
      intersect == tokens_a \cap tokens_b
      diff_ab == tokens_a \ tokens_b
      diff_ba == tokens_b \ tokens_a
      diff_ab_joined == Join(SortedStrs(diff_ab), << " " >>)
      diff_ba_joined == Join(SortedStrs(diff_ba), << " " >>)
      ab_len == Len(diff_ab_joined)
      ba_len == Len(diff_ba_joined)
      sect_len == Len(Join(SortedStrs(intersect), << " " >>))
      sep == IF sect_len # 0 THEN 1 ELSE 0
      sect_ab_len == sect_len + sep + ab_len
      sect_ba_len == sect_len + sep + ba_len
      result == NormDistance(IndelDistance(diff_ab_joined, diff_ba_joined),
                             sect_ab_len + sect_ba_len)
      sect_ab_ratio == NormDistance(sep + ab_len, sect_len + sect_ab_len)
      sect_ba_ratio == NormDistance(sep + ba_len, sect_len + sect_ba_len)
  IN  IF tokens_a = {} \/ tokens_b = {} THEN 0
      ELSE IF intersect # {} /\ (diff_ab = {} \/ diff_ba = {}) THEN Pct(100)
      ELSE IF sect_len = 0 THEN result
      ELSE MaxOf(result, MaxOf(sect_ab_ratio, sect_ba_ratio))

(***************************************************************************)
(* Address scoring: house-number tiers, designator gate, street gate.      *)
(***************************************************************************)
\* re.search(r'^\d+', s): the leading run of digits (empty: no match)
RECURSIVE LeadingDigits(_)
LeadingDigits(s) ==
  IF s # << >> /\ s[1] \in Digits
  THEN << s[1] >> \o LeadingDigits(Tail(s))
  ELSE << >>

\* int(digits)
RECURSIVE ParseInt(_)
ParseInt(ds) ==
  IF ds = << >> THEN 0
  ELSE 10 * ParseInt(Upto(ds, Len(ds) - 1)) + DigitVal(ds[Len(ds)])

Abs(n) == IF n < 0 THEN -n ELSE n

\* the alternatives of apt_pattern, in the order the pattern lists them
DesignatorWords ==
  << << "A", "P", "T" >>,
     << "A", "P", "A", "R", "T", "M", "E", "N", "T" >>,
     << "U", "N", "I", "T" >>,
     << "T", "R", "L", "R" >>,
     << "T", "R", "A", "I", "L", "E", "R" >>,
     << "L", "O", "T" >>,
     << "B", "L", "D", "G" >>,
     << "B", "U", "I", "L", "D", "I", "N", "G" >>,
     << "S", "T", "E" >>,
     << "S", "U", "I", "T", "E" >>,
     << "F", "L", "O", "O", "R" >>,
     << "F", "L" >>,
     << "R", "M" >>,
     << "R", "O", "O", "M" >>,
     << "S", "P", "A", "C", "E" >>,
     << "S", "P", "C" >>,
     << "#" >> >>

\* length of the run of characters satisfying the class cs from position i
RECURSIVE RunLen(_, _, _)
RunLen(s, i, cs) ==
  IF i <= Len(s) /\ s[i] \in cs THEN 1 + RunLen(s, i + 1, cs) ELSE 0

AlnumChars == Digits \cup UpperLetters \cup LowerLetters

\* apt_pattern with alternative k anchored at position i (re.IGNORECASE):
\* \s WORD \s+ ([A-Z0-9]+)
AptAltAt(s, i, k) ==
  LET w == DesignatorWords[k]
      ws == i + 1 + Len(w)
      nsp == RunLen(s, ws, {" "})
  IN  /\ i >= 1 /\ i <= Len(s) /\ IsSpace(s[i])
      /\ StartsAt(Upper(s), i + 1, w)
      /\ nsp >= 1
      /\ RunLen(s, ws + nsp, AlnumChars) >= 1

\* the match of apt_pattern anchored at i: the first alternative that matches
AptMatchAt(s, i) ==
  LET ks == {k \in 1..Len(DesignatorWords) : AptAltAt(s, i, k)}
      k == CHOOSE x \in ks : \A y \in ks : x <= y
      w == DesignatorWords[k]
      ws == i + 1 + Len(w)
      ids == ws + RunLen(s, ws, {" "})
      idn == RunLen(s, ids, AlnumChars)
  IN  [start |-> i, stop |-> ids + idn - 1,
       type |-> SubSeq(s, i + 1, i + Len(w)),
       ident |-> SubSeq(s, ids, ids + idn - 1)]

AptMatches(s, i) == \E k \in 1..Len(DesignatorWords) : AptAltAt(s, i, k)

\* positions >= from where apt_pattern matches
AptPositions(s, from) == {i \in from..Len(s) : AptMatches(s, i)}

\* re.search(apt_pattern, s, re.IGNORECASE): is there a match
HasDesignator(s) == AptPositions(s, 1) # {}

\* ... and the leftmost one
AptSearch(s) ==
  LET ps == AptPositions(s, 1)
  IN  AptMatchAt(s, CHOOSE i \in ps : \A j \in ps : i <= j)

\* re.sub(pattern, "", addr): every non-overlapping match removed
RECURSIVE AptRemoveFrom(_, _)
AptRemoveFrom(s, i) ==
  LET ps == AptPositions(s, i)
  IN  IF ps = {} THEN From(s, i)
      ELSE LET m == AptMatchAt(s, CHOOSE p \in ps : \A q \in ps : p <= q)
           IN  SubSeq(s, i, m.start - 1) \o AptRemoveFrom(s, m.stop + 1)

\* _strip_property_designators(addr)
strip_property_designators(addr) ==
  Strip(Replace(AptRemoveFrom(addr, 1), << " ", " " >>, << " " >>))

\* re.sub(r'^\d+\s*', '', addr.strip()).split(',')[0].strip()
StreetOf(addr) ==
  LET a == Strip(addr)
      nd == RunLen(a, 1, Digits)
      ns == IF nd > 0 THEN RunLen(a, nd + 1, {" "}) ELSE 0
  IN  Strip(BeforeComma(From(a, nd + ns + 1)))

\* normalize_street(street): the chained str.replace calls
normalize_street(street) ==
  LET r1 == Replace(street, << " ", "S", "T", "R", "E", "E", "T" >>, << " ", "S", "T" >>)
      r2 == Replace(r1, << " ", "R", "O", "A", "D" >>, << " ", "R", "D" >>)
      r3 == Replace(r2, << " ", "A", "V", "E", "N", "U", "E" >>, << " ", "A", "V", "E" >>)
      r4 == Replace(r3, << " ", "L", "A", "N", "E" >>, << " ", "L", "N" >>)
      r5 == Replace(r4, << " ", "D", "R", "I", "V", "E" >>, << " ", "D", "R" >>)
      r6 == Replace(r5, << " ", "C", "O", "U", "R", "T" >>, << " ", "C", "T" >>)
  IN  Replace(r6, << " ", "P", "L", "A", "C", "E" >>, << " ", "P", "L" >>)

\* the street-similarity bound below which the score is capped
StreetGate == 78

\* variant: the street names compared as written, abbreviations not
\* normalized
street_gate_score_as_written(addr1, addr2) ==
  LET street_similarity == token_set_ratio(StreetOf(addr1), StreetOf(addr2))
  IN  IF street_similarity < Pct(StreetGate)
      THEN MinOf(Tenths(ratio(addr1, addr2), 7), Pct(65))
      ELSE ratio(addr1, addr2)

\* the part of compute_address_with_apartment_check after the designator
\* comparison: the street-name gate
street_gate_score(addr1, addr2) ==
  LET street_similarity ==
        token_set_ratio(normalize_street(StreetOf(addr1)),
                        normalize_street(StreetOf(addr2)))
  IN  IF street_similarity < Pct(StreetGate)
      THEN MinOf(Tenths(ratio(addr1, addr2), 7), Pct(65))
      ELSE ratio(addr1, addr2)

\* compute_address_with_apartment_check(addr1, addr2)
\* variant: designators compared by identifier only, the type ignored
compute_address_with_apartment_check_by_number(addr1, addr2) ==
  LET has1 == HasDesignator(addr1)
      has2 == HasDesignator(addr2)
  IN  IF has1 /\ has2
      THEN IF Upper(AptSearch(addr1).ident) # Upper(AptSearch(addr2).ident)
           THEN 0
           ELSE street_gate_score(addr1, addr2)
      ELSE IF has1 \/ has2 THEN 0
      ELSE street_gate_score(addr1, addr2)

\* variant: a designator on one side only is let through to the street gate
compute_address_with_apartment_check_both_only(addr1, addr2) ==
  LET has1 == HasDesignator(addr1)
      has2 == HasDesignator(addr2)
  IN  IF has1 /\ has2
      THEN LET m1 == AptSearch(addr1)
               m2 == AptSearch(addr2)
           IN  IF Upper(m1.type) # Upper(m2.type) \/ Upper(m1.ident) # Upper(m2.ident)
               THEN 0
               ELSE street_gate_score(addr1, addr2)
      ELSE street_gate_score(addr1, addr2)

compute_address_with_apartment_check(addr1, addr2) ==
  LET has1 == HasDesignator(addr1)
      has2 == HasDesignator(addr2)
  IN  IF has1 /\ has2
      THEN LET m1 == AptSearch(addr1)
               m2 == AptSearch(addr2)
           IN  IF Upper(m1.type) # Upper(m2.type) \/ Upper(m1.ident) # Upper(m2.ident)
               THEN 0
               ELSE street_gate_score(addr1, addr2)
      ELSE IF has1 \/ has2 THEN 0
      ELSE street_gate_score(addr1, addr2)

\* variant: nearby house numbers (3 to 10 apart) scored as adjacent ones
compute_address_score_near_as_adjacent(addr1, addr2) ==
  LET d1 == LeadingDigits(Strip(addr1))
      d2 == LeadingDigits(Strip(addr2))
      num_diff == Abs(ParseInt(d1) - ParseInt(d2))
  IN  IF d1 # << >> /\ d2 # << >>
      THEN IF num_diff = 0 THEN compute_address_with_apartment_check(addr1, addr2)
           ELSE IF num_diff <= 10
                THEN MinOf(Tenths(token_set_ratio(addr1, addr2), 8), Pct(85))
           ELSE MinOf(Tenths(token_set_ratio(addr1, addr2), 2), Pct(30))
      ELSE token_set_ratio(addr1, addr2)

\* variant: every pair of different house numbers scored as adjacent ones
compute_address_score_all_adjacent(addr1, addr2) ==
  LET d1 == LeadingDigits(Strip(addr1))
      d2 == LeadingDigits(Strip(addr2))
      num_diff == Abs(ParseInt(d1) - ParseInt(d2))
  IN  IF d1 # << >> /\ d2 # << >>
      THEN IF num_diff = 0 THEN compute_address_with_apartment_check(addr1, addr2)
           ELSE MinOf(Tenths(token_set_ratio(addr1, addr2), 8), Pct(85))
      ELSE token_set_ratio(addr1, addr2)

\* compute_address_score(addr1, addr2)
compute_address_score(addr1, addr2) ==
  LET d1 == LeadingDigits(Strip(addr1))
      d2 == LeadingDigits(Strip(addr2))
      num_diff == Abs(ParseInt(d1) - ParseInt(d2))
  IN  IF d1 # << >> /\ d2 # << >>
      THEN IF num_diff = 0 THEN compute_address_with_apartment_check(addr1, addr2)
           ELSE IF num_diff <= 2
                THEN MinOf(Tenths(token_set_ratio(addr1, addr2), 8), Pct(85))
           ELSE IF num_diff <= 10
                THEN MinOf(Tenths(token_set_ratio(addr1, addr2), 5), Pct(60))
           ELSE MinOf(Tenths(token_set_ratio(addr1, addr2), 2), Pct(30))
      ELSE token_set_ratio(addr1, addr2)


(***************************************************************************)
(* schema_detection.py: header synonyms, detect_schema and the strategy    *)
(* report.  Str turns a string literal into the sequence of its            *)
(* characters.                                                             *)
(***************************************************************************)
Str(s) == SubSeq([i \in 1..Len(s) |-> SubSeq(s, i, i)], 1, Len(s))

\* the canonical fields in the order of the HEADER_SYNONYMS dictionary
CanonicalOrder ==
  << "First_Name", "Last_Name", "FullName", "Address1", "Address2", "City", "State",
     "Zip", "FullAddress" >>

HEADER_SYNONYMS ==
  [First_Name |-> << Str("First_Name"), Str("FirstName"), Str("First"), Str("FName"),
                     Str("GivenName") >>,
   Last_Name |-> << Str("Last_Name"), Str("LastName"), Str("Last"), Str("LName"),
                    Str("Surname"), Str("FamilyName") >>,
   FullName |-> << Str("Full_Name"), Str("FullName"), Str("Name"), Str("CustomerName"),
                   Str("ClientName"), Str("ContactName") >>,
   Address1 |-> << Str("Address1"), Str("Address"), Str("Addr1"), Str("StreetAddress"),
                   Str("Street"), Str("Address Line 1"), Str("AddressLine1") >>,
   Address2 |-> << Str("Address2"), Str("Addr2"), Str("Address Line 2"),
                   Str("AddressLine2") >>,
   City |-> << Str("City"), Str("Town"), Str("Municipality"), Str("Locality") >>,
   State |-> << Str("State"), Str("St"), Str("Province"), Str("Region") >>,
   Zip |-> << Str("Zip"), Str("Zip5"), Str("ZipCode"), Str("PostalCode"), Str("Postcode") >>,
   FullAddress |-> << Str("FullAddress"), Str("MailingAddress"), Str("Full Address") >>]

\* variant: the case of the header is kept
normalize_header_case_sensitive(header) ==
  SelectSeq(Strip(header), LAMBDA c : c \in (LowerLetters \cup UpperLetters \cup Digits))

\* variant: digits are dropped too
normalize_header_letters_only(header) ==
  SelectSeq(Lower(Strip(header)), LAMBDA c : c \in LowerLetters)

\* _normalize_header: re.sub(r"[^a-z0-9]", "", header.strip().lower())
normalize_header(header) ==
  SelectSeq(Lower(Strip(header)), LAMBDA c : c \in (LowerLetters \cup Digits))

\* _candidate_headers(df_columns, variants)
candidate_headers(df_columns, variants) ==
  LET target_norms == {normalize_header(variants[k]) : k \in 1..Len(variants)}
  IN  SelectSeq(df_columns, LAMBDA col : normalize_header(col) \in target_norms)

None == << "None" >>

\* _pick_single_or_raise(canonical, candidates, file, sheet): the header
\* chosen (None for none), or the SchemaError raised
\* variant: the first matching header is taken, several or not
pick_first(canonical, candidates) ==
  [raised |-> FALSE, canonical |-> canonical, columns |-> << >>,
   chosen |-> IF candidates # << >> THEN candidates[1] ELSE None]

pick_single_or_raise(canonical, candidates) ==
  IF Len(candidates) > 1
  THEN [raised |-> TRUE, canonical |-> canonical, columns |-> candidates, chosen |-> None]
  ELSE [raised |-> FALSE, canonical |-> canonical, columns |-> << >>,
        chosen |-> IF candidates # << >> THEN candidates[1] ELSE None]

\* DetectedField(canonical, source, derived)
DetectedField(source, derived) == [source |-> source, derived |-> derived]

NoMapping == << "no mapping" >>

NoError == << "no error" >>

\* the first pass of detect_schema from the k-th canonical field on
RECURSIVE direct_matches(_, _, _)
direct_matches(df_columns, k, mapping) ==
  IF k > Len(CanonicalOrder) THEN [raised |-> FALSE, error |-> NoError, mapping |-> mapping]
  ELSE LET canonical == CanonicalOrder[k]
           pick == pick_single_or_raise(canonical,
                     candidate_headers(df_columns, HEADER_SYNONYMS[canonical]))
       IN  IF pick.raised
           THEN [raised |-> TRUE, error |-> pick, mapping |-> NoMapping]
           ELSE direct_matches(df_columns, k + 1,
                  IF pick.chosen # None /\ pick.chosen # << >>
                  THEN mapping @@ (canonical :> DetectedField(pick.chosen, "None"))
                  ELSE mapping)

\* the derivable fields of detect_schema
with_full_name(m) ==
  IF "FullName" \notin DOMAIN m /\ "First_Name" \in DOMAIN m /\ "Last_Name" \in DOMAIN m
  THEN m @@ ("FullName" :> DetectedField(None, "concat(First_Name, ' ', Last_Name)"))
  ELSE m

with_first_last(m) ==
  IF "FullName" \in DOMAIN m
  THEN (m @@ ("First_Name" :> DetectedField(None, "split(FullName).first")))
         @@ ("Last_Name" :> DetectedField(None, "split(FullName).last"))
  ELSE m

\* variant: FullAddress derived as soon as Address1 is there
with_full_address_partial(m) ==
  IF "FullAddress" \notin DOMAIN m /\ "Address1" \in DOMAIN m
  THEN m @@ ("FullAddress" :>
               DetectedField(None, "concat(Address1, ', ', City, ', ', State, ' ', Zip)"))
  ELSE m

with_full_address(m) ==
  IF "FullAddress" \notin DOMAIN m /\ {"Address1", "City", "State", "Zip"} \subseteq DOMAIN m
  THEN m @@ ("FullAddress" :>
               DetectedField(None, "concat(Address1, ', ', City, ', ', State, ' ', Zip)"))
  ELSE m

\* detect_schema(df_columns, file, sheet)
detect_schema(df_columns) ==
  LET first == direct_matches(df_columns, 1, << >>)
  IN  IF first.raised THEN first
      ELSE [raised |-> FALSE, error |-> NoError,
            mapping |-> with_full_address(with_first_last(with_full_name(first.mapping)))]

\* variant: LastNameAddress enabled by the address alone
evaluate_match_types_address_only(mapping) ==
  LET fullname_ok == \/ {"First_Name", "Last_Name"} \subseteq DOMAIN mapping
                     \/ "FullName" \in DOMAIN mapping
      fulladdr_ok == \/ "FullAddress" \in DOMAIN mapping
                     \/ {"Address1", "City", "State", "Zip"} \subseteq DOMAIN mapping
  IN  [FullName |->
         [enabled |-> fullname_ok,
          reason |-> IF fullname_ok THEN "None" ELSE "Missing First/Last and FullName"],
       LastNameAddress |->
         [enabled |-> fulladdr_ok,
          reason |-> IF fulladdr_ok THEN "None"
                     ELSE "Missing Last_Name or FullAddress/parts"],
       FullAddress |->
         [enabled |-> fulladdr_ok,
          reason |-> IF fulladdr_ok THEN "None" ELSE "Missing FullAddress/parts"]]

\* evaluate_match_types(mapping)
evaluate_match_types(mapping) ==
  LET fullname_ok == \/ {"First_Name", "Last_Name"} \subseteq DOMAIN mapping
                     \/ "FullName" \in DOMAIN mapping
      last_ok == "Last_Name" \in DOMAIN mapping
      fulladdr_ok == \/ "FullAddress" \in DOMAIN mapping
                     \/ {"Address1", "City", "State", "Zip"} \subseteq DOMAIN mapping
  IN  [FullName |->
         [enabled |-> fullname_ok,
          reason |-> IF fullname_ok THEN "None" ELSE "Missing First/Last and FullName"],
       LastNameAddress |->
         [enabled |-> last_ok /\ fulladdr_ok,
          reason |-> IF last_ok /\ fulladdr_ok THEN "None"
                     ELSE "Missing Last_Name or FullAddress/parts"],
       FullAddress |->
         [enabled |-> fulladdr_ok,
          reason |-> IF fulladdr_ok THEN "None" ELSE "Missing FullAddress/parts"]]

(***************************************************************************)
(* The strategy combiner and the search strings.                           *)
(***************************************************************************)
MatchTypes == {"FullName", "LastNameAddress", "FullAddress"}

\* raise ValueError(f"Unknown match_type: {match_type}")
ValueError == << "ValueError: Unknown match_type" >>

\* variant: the mean is taken whether or not a component is 0
get_combined_score_compensating(scores, match_type) ==
  CASE match_type = "FullName" -> (scores[1] + scores[2]) \div 2
    [] match_type = "LastNameAddress" -> (scores[2] + scores[3]) \div 2
    [] match_type = "FullAddress" -> scores[3]

\* variant: the two components are added, not averaged
get_combined_score_sum(scores, match_type) ==
  CASE match_type = "FullName" ->
         IF scores[1] > 0 /\ scores[2] > 0 THEN scores[1] + scores[2] ELSE 0
    [] match_type = "LastNameAddress" ->
         IF scores[2] > 0 /\ scores[3] > 0 THEN scores[2] + scores[3] ELSE 0
    [] match_type = "FullAddress" -> scores[3]

\* get_combined_score(scores, match_type), scores = (first, last, address)
get_combined_score(scores, match_type) ==
  LET first == scores[1]
      last == scores[2]
      address == scores[3]
  IN  CASE match_type = "FullName" ->
             IF first > 0 /\ last > 0 THEN (first + last) \div 2 ELSE 0
        [] match_type = "LastNameAddress" ->
             IF last > 0 /\ address > 0 THEN (last + address) \div 2 ELSE 0
        [] match_type = "FullAddress" -> address
        [] OTHER -> ValueError

\* f"{a} {b}"
Spaced(a, b) == a \o << " " >> \o b

\* " ".join([p for p in parts if p])
JoinNonEmpty(parts, sep) == Join(SelectSeq(parts, LAMBDA q : q # << >>), sep)

\* create_search_string(row, match_type)
create_search_string(row, match_type) ==
  CASE match_type = "FullName" -> Strip(Spaced(row.First_Name, row.Last_Name))
    [] match_type = "LastNameAddress" ->
         LET fulladdr == Strip(row.FullAddress)
             fallback == JoinNonEmpty(<< Strip(row.City), Strip(row.State), Strip(row.Zip) >>,
                                      << " " >>)
         IN  IF fulladdr # << >>
             THEN Strip(Spaced(row.Last_Name, strip_property_designators(fulladdr)))
             ELSE Strip(Spaced(row.Last_Name, fallback))
    [] match_type = "FullAddress" -> row.FullAddress
    [] OTHER -> ValueError

\* compute_individual_scores(row1, row2)
compute_individual_scores(row1, row2) ==
  << token_set_ratio(row1.First_Name, row2.First_Name),
     token_set_ratio(row1.Last_Name, row2.Last_Name),
     compute_address_score(row1.FullAddress, row2.FullAddress) >>

\* the input-side address of the LastNameAddress strategy: FullAddress, or
\* "City, State Zip" when FullAddress is blank
lna_input_address(row1) ==
  LET fa1 == Strip(row1.FullAddress)
      cs == JoinNonEmpty(<< Strip(row1.City), Strip(row1.State) >>, << ",", " " >>)
      z == Strip(row1.Zip)
  IN  IF fa1 # << >> THEN fa1
      ELSE IF z # << >> THEN Strip(Spaced(cs, z)) ELSE cs

\* the scores of one candidate, as the candidate loop computes them
\* variant: the address score taken on the full addresses under every tag
candidate_scores_unstripped(row1, row2, match_type) == compute_individual_scores(row1, row2)

candidate_scores(row1, row2, match_type) ==
  IF match_type = "LastNameAddress"
  THEN << token_set_ratio(row1.First_Name, row2.First_Name),
          token_set_ratio(row1.Last_Name, row2.Last_Name),
          compute_address_score(strip_property_designators(lna_input_address(row1)),
                                strip_property_designators(row2.FullAddress)) >>
  ELSE compute_individual_scores(row1, row2)

\* the exact combined score of an input row against a master row
accurate_score(row1, row2, match_type) ==
  get_combined_score(candidate_scores(row1, row2, match_type), match_type)

(***************************************************************************)
(* process.extract(query, choices, scorer=fuzz.token_set_ratio, limit):    *)
(* every choice scored, best first, equal scores in list order, the first  *)
(* limit kept.  An entry is (score, list_position), positions from 0.      *)
(***************************************************************************)
ShortlistLimit == 10

CandBefore(x, y) == x.score > y.score \/ (x.score = y.score /\ x.list_position < y.list_position)

\* the entries of S, best first: the entry at place i has i - 1 entries
\* before it
CandSorted(S) ==
  SubSeq([i \in 1..Cardinality(S) |->
            CHOOSE x \in S : Cardinality({y \in S : CandBefore(y, x)}) = i - 1],
         1, Cardinality(S))

FirstN(seq, n) == SubSeq(seq, 1, MinOf(n, Len(seq)))


(***************************************************************************)
(* schema_detection.split_full_name.                                       *)
(***************************************************************************)
SUFFIX_TOKENS == {Str("JR"), Str("SR"), Str("II"), Str("III"), Str("IV")}

\* the last-space rule alone, with no suffix handling
split_full_name_last_space(full_name) ==
  LET parts == Split(Strip(full_name))
      n == Len(parts)
  IN  IF n = 0 THEN << << >>, << >> >>
      ELSE IF n = 1 THEN << parts[1], << >> >>
      ELSE << Join(SubSeq(parts, 1, n - 1), << " " >>), parts[n] >>

\* split_full_name(full_name): (first, last)
split_full_name(full_name) ==
  LET name == Strip(full_name)
      parts == Split(name)
      n == Len(parts)
      \* str.rstrip("."): drop the trailing periods
      rstrip(tok) ==
        LET keep == {i \in 1..Len(tok) : tok[i] # "."}
        IN  IF keep = {} THEN << >>
            ELSE SubSeq(tok, 1, CHOOSE i \in keep : \A j \in keep : j <= i)
  IN  IF name = << >> THEN << << >>, << >> >>
      ELSE IF n = 1 THEN << parts[1], << >> >>
      ELSE IF Upper(rstrip(parts[n])) \in SUFFIX_TOKENS /\ n >= 3
           THEN << Join(SubSeq(parts, 1, n - 2), << " " >>),
                   Join(SubSeq(parts, n - 1, n), << " " >>) >>
           ELSE << Join(SubSeq(parts, 1, n - 1), << " " >>), parts[n] >>

(***************************************************************************)
(* Normalised records.  A row of a preprocessed frame is a record of       *)
(* strings; its position in the frame is its index (0, 1, ...).            *)
(***************************************************************************)
\* fillna('').astype(str).str.upper().str.strip()
NormField(v) == Strip(Upper(v))

\* preprocess_data: FullAddress from the normalised parts, only when all
\* four are non-empty
master_full_address(address1, city, state, zip) ==
  IF Strip(address1) # << >> /\ Strip(city) # << >> /\ Strip(state) # << >> /\ Strip(zip) # << >>
  THEN StripChars(address1 \o << ",", " " >> \o city \o << ",", " " >> \o state
                    \o << " " >> \o zip,
                  {",", " "})
  ELSE << >>

\* preprocess_data on one raw master row (Address and Address 2 already
\* joined into address1)
master_row(first, last, address1, city, state, zip) ==
  LET a == NormField(address1)
      c == NormField(city)
      st == NormField(state)
      z == NormField(zip)
  IN  [First_Name |-> NormField(first), Last_Name |-> NormField(last),
       Address1 |-> a, City |-> c, State |-> st, Zip |-> z,
       FullAddress |-> master_full_address(a, c, st, z)]

\* preprocess_input_variable: the derived FullAddress of an input row whose
\* sheet has Address1, Address2, City, State and Zip columns
input_full_address(address1, address2, city, state, zip) ==
  LET addr_line == Strip(CollapseSpaces(Spaced(address1, address2)))
  IN  IF Strip(addr_line) # << >> /\ Strip(city) # << >> /\ Strip(state) # << >> /\ Strip(zip) # << >>
      THEN StripChars(CollapseSpaces(addr_line \o << ",", " " >> \o city \o << ",", " " >>
                                       \o state \o << " " >> \o zip),
                      {",", " "})
      ELSE << >>

\* preprocess_input_variable, lines 91-109: the raw First_Name and Last_Name
\* of a row, from the cells of its FullName, First_Name and Last_Name
\* columns (None for a column the sheet does not have)
input_names(full_name, first, last) ==
  IF full_name # None THEN split_full_name(full_name)
  ELSE << IF first # None THEN first ELSE << >>, IF last # None THEN last ELSE << >> >>

\* preprocess_input_variable on one raw input row with First/Last columns
input_row(first, last, address1, address2, city, state, zip) ==
  [First_Name |-> NormField(first), Last_Name |-> NormField(last),
   Address1 |-> NormField(address1), City |-> NormField(city),
   State |-> NormField(state), Zip |-> NormField(zip),
   FullAddress |-> NormField(input_full_address(address1, address2, city, state, zip))]

(***************************************************************************)
(* The Opens column of the master sheet.                                   *)
(***************************************************************************)
\* a missing cell of a raw frame
NaN == << "NaN" >>

\* _detect_opens_header(columns): the position of the first opens-like
\* header (0 for None)
detect_opens_header(columns) ==
  LET normalize_header_simple(header) ==
        SelectSeq(Lower(Strip(header)), LAMBDA c : c \in (LowerLetters \cup Digits))
      variants == << Str("opens"), Str("open"), Str("opened"), Str("opening"), Str("opens?") >>
      targets == {normalize_header_simple(variants[k]) : k \in 1..Len(variants)}
      hits == {k \in 1..Len(columns) : normalize_header_simple(columns[k]) \in targets}
  IN  IF hits = {} THEN 0 ELSE CHOOSE k \in hits : \A j \in hits : k <= j

\* variant: every cell that is not blank counts as an open
preprocess_master_with_opens_any_mark(columns, cells, row) ==
  LET opens_col == detect_opens_header(columns)
      raw == IF cells[opens_col] = NaN THEN Str("nan") ELSE cells[opens_col]
  IN  IF opens_col = 0 THEN << row, TRUE >>
      ELSE << [Opens |-> IF Strip(raw) # << >> THEN << "x" >> ELSE << >>] @@ row, FALSE >>

\* preprocess_master_with_opens(df_master_raw): (df2, opens_missing) for a
\* one-row sheet whose further columns are columns, with the raw values
\* cells, and whose preprocess_data row is row
preprocess_master_with_opens(columns, cells, row) ==
  LET opens_col == detect_opens_header(columns)
      \* raw_series.astype(str).fillna("")
      raw == IF cells[opens_col] = NaN THEN Str("nan") ELSE cells[opens_col]
      normalized == IF Lower(Strip(raw)) = << "x" >> THEN << "x" >> ELSE << >>
  IN  IF opens_col = 0 THEN << row, TRUE >>
      ELSE << [Opens |-> normalized] @@ row, FALSE >>

(***************************************************************************)
(* The rows the tables of the model are drawn from.                        *)
(***************************************************************************)

InputRows ==
  << input_row(Str("J QQ"), Str("S"), Str("7 OAK ST"), Str("APT 5"), Str("X"), Str("CT"), Str("1")),
     input_row(Str("J QQ"), Str("S"), << >>, << >>, Str("X"), Str("CT"), Str("1")),
     input_row(Str("K"), Str("T"), Str("9 OAK ST"), << >>, Str("X"), Str("CT"), Str("1")),
     input_row(Str("J"), Str("S"), Str("7 OAK ST"), Str("APT 5"), Str("X"), Str("CT"), Str("1")),
     input_row(Str("J"), Str("S"), Str("7 OAK ST"), Str("STE 12"), Str("X"), Str("CT"), Str("1")),
     input_row(Str("J"), Str("S"), Str("OAK ST"), Str("APT 5"), Str("X"), Str("CT"), Str("1")),
     input_row(Str("J"), << >>, Str("7 OAK ST"), Str("APT 5"), Str("X"), Str("CT"), Str("1")),
     input_row(Str("J"), Str("S"), Str("7 OAK ST"), << >>, Str("X"), Str("CT"), Str("1")),
     input_row(Str("J"), Str("S"), Str("30 OAK ST"), << >>, Str("X"), Str("CT"), Str("1")) >>

MasterRows ==
  << master_row(Str("J"), Str("S R"), Str("7 OAK ST APT 6"), Str("X"), Str("CT"), Str("1")),
     master_row(Str("J QQ"), Str("S"), Str("7 OAK ST APT 5"), Str("X"), Str("CT"), Str("1")),
     master_row(Str("J"), Str("S RR"), << >>, Str("X"), Str("CT"), Str("1")),
     master_row(Str("K"), Str("T"), Str("7 OAK ST APT 5"), Str("X YY"), Str("CT"), Str("1")),
     master_row(Str("J"), Str("S"), Str("7 OAK ST APT 6"), Str("X"), Str("CT"), Str("1")),
     master_row(Str("J"), Str("S"), Str("7 OAK ST SUITE 12"), Str("X"), Str("CT"), Str("1")),
     master_row(Str("J"), Str("S"), Str("OAK ST APT 6"), Str("X"), Str("CT"), Str("1")),
     master_row(Str("J"), << >>, Str("7 OAK ST APT 6"), Str("X"), Str("CT"), Str("1")),
     master_row(Str("J"), Str("S"), Str("17 OAK ST"), Str("X"), Str("CT"), Str("1")),
     master_row(Str("J"), Str("S"), Str("7 OAK ST"), Str("X"), Str("CT"), Str("1")) >>

InputPool == {InputRows[k] : k \in 1..3}

\* the rows the small master tables are drawn from
MasterPool == {MasterRows[k] : k \in 1..3}

\* a master table longer than the shortlist: ShortlistLimit rows at
\* "7 OAK ST APT 6", then one at "7 OAK ST APT 5" in another town
LongMaster == [k \in 1..11 |-> IF k <= 10 THEN MasterRows[1] ELSE MasterRows[4]]

\* one-row tables: an input row and a master row that differ in the unit
\* designator only, with and without a house number and a last name
ScenarioTables == { << << InputRows[3 + k] >>, << MasterRows[4 + k] >> >> : k \in 1..4 }

\* one-row tables: the same person at the same street, the house numbers
\* 10 and 23 apart
DistanceTables == { << << InputRows[7 + k] >>, << MasterRows[8 + k] >> >> : k \in 1..2 }

MaxInputs == 2

MaxMasters == 2

SeqsUpTo(S, n) == UNION {[1..k -> S] : k \in 0..n}

\* threshold argument of run_specific_match: None, or a float
ThresholdArgs ==
  { [given |-> FALSE, value |-> 0],
    [given |-> TRUE, value |-> Pct(0)],
    [given |-> TRUE, value |-> Pct(60)] }

\* The scores of the pool's rows, computed once: the exact combined score of
\* every (input row, master row, strategy), and fuzz.token_set_ratio of
\* every (query string, master search string).
IndexOf(seq, x) == CHOOSE i \in 1..Len(seq) : seq[i] = x

\* the sequence f(1), ..., f(n), computed once
Tabulate(n, f(_)) == SubSeq([i \in 1..n |-> f(i)], 1, n)

MatchTypeSeq == << "FullName", "LastNameAddress", "FullAddress" >>

AccurateScores ==
  Tabulate(Len(InputRows), LAMBDA i :
    Tabulate(Len(MasterRows), LAMBDA j :
      Tabulate(Len(MatchTypeSeq), LAMBDA m :
        accurate_score(InputRows[i], MasterRows[j], MatchTypeSeq[m]))))

SearchStringsOf(rows) ==
  Tabulate(Len(rows) * Len(MatchTypeSeq), LAMBDA k :
    create_search_string(rows[((k - 1) \div Len(MatchTypeSeq)) + 1],
                         MatchTypeSeq[((k - 1) % Len(MatchTypeSeq)) + 1]))

QueryStrings == SearchStringsOf(InputRows)

ChoiceStrings == SearchStringsOf(MasterRows)

\* create_search_string(row, match_type) of a row of the pool, read from the
\* table of its search strings; an unknown tag has no table entry
search_string(rows, strings, row, mt) ==
  IF \E m \in 1..Len(MatchTypeSeq) : MatchTypeSeq[m] = mt
  THEN strings[(IndexOf(rows, row) - 1) * Len(MatchTypeSeq) + IndexOf(MatchTypeSeq, mt)]
  ELSE create_search_string(row, mt)

ApproxScores ==
  Tabulate(Len(QueryStrings), LAMBDA q :
    Tabulate(Len(ChoiceStrings), LAMBDA c :
      token_set_ratio(QueryStrings[q], ChoiceStrings[c])))

\* scorer=fuzz.token_set_ratio of the shortlist call
scorer(query, choice) ==
  ApproxScores[IndexOf(QueryStrings, query)][IndexOf(ChoiceStrings, choice)]

\* variant: the first limit choices in list order, not sorted by score
extract_in_list_order(query, choices, limit) ==
  FirstN([k \in 1..Len(choices) |-> [score |-> scorer(query, choices[k]), list_position |-> k - 1]],
         limit)

\* variant: every choice is returned, best first
extract_unlimited(query, choices, limit) ==
  CandSorted({[score |-> scorer(query, choices[k]), list_position |-> k - 1]
                : k \in 1..Len(choices)})

\* process.extract(query, choices, scorer=fuzz.token_set_ratio, limit=limit)
extract(query, choices, limit) ==
  FirstN(CandSorted({[score |-> scorer(query, choices[k]), list_position |-> k - 1]
                       : k \in 1..Len(choices)}),
         limit)

\* the approximate score of an input row against a master row: the scorer
\* on their search strings
approx_score(row1, row2, mt) ==
  LET m == IndexOf(MatchTypeSeq, mt)
  IN  ApproxScores[(IndexOf(InputRows, row1) - 1) * Len(MatchTypeSeq) + m]
                  [(IndexOf(MasterRows, row2) - 1) * Len(MatchTypeSeq) + m]

\* the exact score of the candidate loop
exact_score(row1, row2, mt) ==
  AccurateScores[IndexOf(InputRows, row1)][IndexOf(MasterRows, row2)][IndexOf(MatchTypeSeq, mt)]

(***************************************************************************)
(* run_specific_match(df1, df2, match_type, threshold) as a state machine: *)
(* the set-up, then per input row the shortlist, the candidate loop and    *)
(* the emission, then the final sort.                                      *)
(***************************************************************************)
VARIABLES
  df1,              \* the preprocessed input frame (sequence of rows)
  df2,              \* the preprocessed master frame
  match_type,       \* the strategy tag
  threshold_arg,    \* the threshold argument (None or a float)
  pc,               \* position in run_specific_match
  threshold,        \* the threshold in force
  df2_list,         \* [(actual_idx, row2), ...] after the FullAddress filter
  search_strings,   \* the master search strings, parallel to df2_list
  idx1,             \* index of the input row being processed
  best_score,       \* running best exact score of the row
  best_idx2,        \* master index of the running best, NoIdx for None
  candidates,       \* the shortlist of the row
  cpos,             \* position in the shortlist (1-based)
  results,          \* the result rows
  rescored          \* number of candidates rescored so far (lines 498-521)

match_vars ==
  << df1, df2, match_type, threshold_arg, pc, threshold, df2_list, search_strings,
     idx1, best_score, best_idx2, candidates, cpos, results, rescored >>

\* one call of compute_address_score
VARIABLES
  addr1,            \* first argument
  addr2,            \* second argument
  address_score,    \* the value returned
  apc               \* "call" before the call, "returned" after it

addr_vars == << addr1, addr2, address_score, apc >>

\* one run of a driver (run_from_excel.main, write_results_new_file.main,
\* FuzzyMatcherApp.process_file) on a workbook
VARIABLES
  driver,           \* which driver runs
  columns,          \* the headers of the input sheet
  opens_missing,    \* whether the master sheet lacks an Opens column
  dpc,              \* position in the driver
  schema,           \* outcome of detect_schema on the headers
  std_frame,        \* whether preprocess_input_variable returned a frame
  report,           \* the strategy report it returned, NoReport for none
  strategies_run,   \* strategies run_specific_match was called for
  found,            \* the strategies whose result frame has rows
  sheets_written,   \* result sheets written
  exit_code         \* value returned by the driver

driver_vars ==
  << driver, columns, opens_missing, dpc, schema, std_frame, report, strategies_run, found,
     sheets_written, exit_code >>

\* one call of a function on its own: evaluate_match_types, detect_schema,
\* get_combined_score, preprocess_input_variable and preprocess_data on a
\* one-row sheet
VARIABLES
  callee,           \* the function called
  args,             \* its arguments, a record
  returned,         \* the value returned or the exception raised
  fpc               \* "call" before the call, "returned" after it

call_vars == << callee, args, returned, fpc >>

vars == << match_vars, addr_vars, driver_vars, call_vars >>

NoResult == << "no result" >>

CallIdle == callee = "none" /\ args = << >> /\ returned = NoResult /\ fpc = "idle"

NoIdx == -1

\* thresholds.get(match_type, 80.0)
default_threshold(mt) ==
  CASE mt = "FullName" -> Pct(85)
    [] mt = "LastNameAddress" -> Pct(75)
    [] mt = "FullAddress" -> Pct(80)
    [] OTHER -> Pct(80)

\* if threshold is None: threshold = thresholds.get(...)
resolve_threshold(arg, mt) == IF arg.given THEN arg.value ELSE default_threshold(mt)

\* df2_list: the master rows with their indices; rows without a FullAddress
\* are dropped under the two address strategies
\* variant: the rows that are kept are numbered anew
master_list_renumbered(frame, mt) ==
  LET kept == SelectSeq(frame, LAMBDA r : Strip(r.FullAddress) # << >>)
      rows == IF mt \in {"FullAddress", "LastNameAddress"} THEN kept ELSE frame
  IN  [k \in 1..Len(rows) |-> [actual_idx |-> k - 1, row2 |-> rows[k]]]

master_list(frame, mt) ==
  LET all == [k \in 1..Len(frame) |-> [actual_idx |-> k - 1, row2 |-> frame[k]]]
  IN  IF mt \in {"FullAddress", "LastNameAddress"}
      THEN SelectSeq(all, LAMBDA e : Strip(e.row2.FullAddress) # << >>)
      ELSE all

\* the test that skips an input row before any candidate is looked at
skip_input(row1, mt) == mt = "FullAddress" /\ Strip(row1.FullAddress) = << >>

\* threshold * 0.8: below it the candidate loop stops
\* variant: no cut-off
prefilter_cutoff_none(thr) == 0

prefilter_cutoff(thr) == Tenths(thr, 8)

\* best_score = 0; best_idx2 = None at the top of every iteration
\* variant: the running best of the previous row is kept
best_carried == [score |-> best_score, idx2 |-> best_idx2]

best_reset == [score |-> 0, idx2 |-> NoIdx]

\* if accurate_score > best_score
\* variant: >= in place of >
improves_or_equals(accurate, best) == accurate >= best

improves(accurate, best) == accurate > best

\* if best_score >= threshold and best_row2 is not None
\* variant: any best candidate is emitted
emit_any_best(best, thr, bidx) == bidx # NoIdx

emit_condition(best, thr, bidx) == best >= thr /\ bidx # NoIdx

\* round(x, 2): to the nearest hundredth, halves to the even neighbour
Round2(x) ==
  LET unit == Scale \div 100
      q == x \div unit
      r == x % unit
  IN  unit * (IF 2 * r > unit \/ (2 * r = unit /\ q % 2 = 1) THEN q + 1 ELSE q)

\* the result row of an input row and its best master row
\* variant: 'Sheet A Row' taken from the master index
match_record_by_master(i1, row1, i2, row2, score) ==
  [Match_Score |-> Round2(score),
   Sheet_A_Row |-> i2 + 2,
   Sheet_B_Row |-> i2 + 2,
   Name_A |-> Strip(Spaced(row1.First_Name, row1.Last_Name)),
   Name_B |-> Strip(Spaced(row2.First_Name, row2.Last_Name)),
   Address_A |-> row1.FullAddress,
   Address_B |-> row2.FullAddress]

match_record(i1, row1, i2, row2, score) ==
  [Match_Score |-> Round2(score),
   Sheet_A_Row |-> i1 + 2,
   Sheet_B_Row |-> i2 + 2,
   Name_A |-> Strip(Spaced(row1.First_Name, row1.Last_Name)),
   Name_B |-> Strip(Spaced(row2.First_Name, row2.Last_Name)),
   Address_A |-> row1.FullAddress,
   Address_B |-> row2.FullAddress]

\* results_df.sort_values(by='Match Score', ascending=False): rows of equal
\* score keep their order
RECURSIVE SortByScore(_)
SortByScore(rs) ==
  IF rs = << >> THEN << >>
  ELSE LET top == CHOOSE k \in 1..Len(rs) :
                    /\ \A j \in 1..Len(rs) : rs[j].Match_Score <= rs[k].Match_Score
                    /\ \A j \in 1..(k - 1) : rs[j].Match_Score < rs[k].Match_Score
       IN  << rs[top] >> \o SortByScore(SubSeq(rs, 1, top - 1) \o SubSeq(rs, top + 1, Len(rs)))

Row1 == df1[idx1 + 1]

\* the loop "for idx1, row1 in df1.iterrows()" moves to row n, or ends
NextRowPc(n) == IF n < Len(df1) THEN "row" ELSE "sort"

MatchInit ==
  /\ \/ /\ df1 \in SeqsUpTo(InputPool, MaxInputs)
        /\ df2 \in SeqsUpTo(MasterPool, MaxMasters) \cup {LongMaster}
     \/ \E tables \in ScenarioTables \cup DistanceTables : df1 = tables[1] /\ df2 = tables[2]
  /\ match_type \in MatchTypes \cup {"NameAddress"}
  /\ threshold_arg \in ThresholdArgs
  /\ pc = "start"
  /\ threshold = 0
  /\ df2_list = << >>
  /\ search_strings = << >>
  /\ idx1 = 0
  /\ best_score = 0
  /\ best_idx2 = NoIdx
  /\ candidates = << >>
  /\ cpos = 1
  /\ results = << >>
  /\ rescored = 0

\* lines 450-470: threshold, df2_list, search strings, results = []; the
\* ValueError of create_search_string on a master row ends the call
Setup ==
  /\ pc = "start"
  /\ threshold' = resolve_threshold(threshold_arg, match_type)
  /\ df2_list' = master_list(df2, match_type)
  /\ \E strs \in {SubSeq([k \in 1..Len(df2_list') |->
                             search_string(MasterRows, ChoiceStrings,
                                           df2_list'[k].row2, match_type)],
                          1, Len(df2_list'))} :
        IF \E k \in 1..Len(strs) : strs[k] = ValueError
        THEN search_strings' = << >> /\ pc' = "raised"
        ELSE search_strings' = strs /\ pc' = NextRowPc(0)
  /\ idx1' = 0
  /\ UNCHANGED << df1, df2, match_type, threshold_arg, best_score, best_idx2,
                  candidates, cpos, results >>
  /\ UNCHANGED rescored
  /\ UNCHANGED << addr_vars, driver_vars, call_vars >>

\* lines 475-482: the row is skipped (FullAddress strategy, blank FullAddress)
RowSkip ==
  /\ pc = "row"
  /\ skip_input(Row1, match_type)
  /\ best_score' = best_reset.score
  /\ best_idx2' = best_reset.idx2
  /\ idx1' = idx1 + 1
  /\ pc' = NextRowPc(idx1 + 1)
  /\ UNCHANGED << df1, df2, match_type, threshold_arg, threshold, df2_list,
                  search_strings, candidates, cpos, results >>
  /\ UNCHANGED rescored
  /\ UNCHANGED << addr_vars, driver_vars, call_vars >>

\* lines 475-491: best reset, query string, shortlist; the ValueError of
\* create_search_string on the input row ends the call
RowStart ==
  /\ pc = "row"
  /\ ~skip_input(Row1, match_type)
  /\ best_score' = best_reset.score
  /\ best_idx2' = best_reset.idx2
  /\ \E query_str \in {search_string(InputRows, QueryStrings, Row1, match_type)} :
        IF query_str = ValueError
        THEN candidates' = candidates /\ pc' = "raised"
        ELSE candidates' = extract(query_str, search_strings, ShortlistLimit) /\ pc' = "cand"
  /\ cpos' = 1
  /\ UNCHANGED << df1, df2, match_type, threshold_arg, threshold, df2_list,
                  search_strings, idx1, results >>
  /\ UNCHANGED rescored
  /\ UNCHANGED << addr_vars, driver_vars, call_vars >>

\* lines 494-526: one candidate rescored, the running best updated
CandScore ==
  /\ pc = "cand"
  /\ cpos <= Len(candidates)
  /\ candidates[cpos].score >= prefilter_cutoff(threshold)
  /\ LET e == df2_list[candidates[cpos].list_position + 1]
         acc == exact_score(Row1, e.row2, match_type)
     IN  IF improves(acc, best_score)
         THEN best_score' = acc /\ best_idx2' = e.actual_idx
         ELSE UNCHANGED << best_score, best_idx2 >>
  /\ cpos' = cpos + 1
  /\ rescored' = rescored + 1
  /\ UNCHANGED << df1, df2, match_type, threshold_arg, pc, threshold, df2_list,
                  search_strings, idx1, candidates, results >>
  /\ UNCHANGED << addr_vars, driver_vars, call_vars >>

\* best_row2: set together with best_idx2 from one entry of df2_list
best_row2 ==
  LET e == CHOOSE x \in {df2_list[k] : k \in 1..Len(df2_list)} : x.actual_idx = best_idx2
  IN  e.row2

\* lines 495-496 and 528-540: the loop ends (shortlist exhausted, or a
\* candidate under the cut-off) and the row's result is appended
RowEnd ==
  /\ pc = "cand"
  /\ \/ cpos > Len(candidates)
     \/ /\ cpos <= Len(candidates)
        /\ candidates[cpos].score < prefilter_cutoff(threshold)
  /\ results' = IF emit_condition(best_score, threshold, best_idx2)
                THEN Append(results,
                            match_record(idx1, Row1, best_idx2, best_row2, best_score))
                ELSE results
  /\ idx1' = idx1 + 1
  /\ pc' = NextRowPc(idx1 + 1)
  /\ UNCHANGED << df1, df2, match_type, threshold_arg, threshold, df2_list,
                  search_strings, best_score, best_idx2, candidates, cpos >>
  /\ UNCHANGED rescored
  /\ UNCHANGED << addr_vars, driver_vars, call_vars >>

\* lines 542-546: the results sorted by descending score and returned
Finish ==
  /\ pc = "sort"
  /\ results' = SortByScore(results)
  /\ pc' = "done"
  /\ UNCHANGED << df1, df2, match_type, threshold_arg, threshold, df2_list,
                  search_strings, idx1, best_score, best_idx2, candidates, cpos >>
  /\ UNCHANGED rescored
  /\ UNCHANGED << addr_vars, driver_vars, call_vars >>

MatchNext == Setup \/ RowSkip \/ RowStart \/ CandScore \/ RowEnd \/ Finish

(***************************************************************************)
(* compute_address_score on a pair of addresses: an optional house number, *)
(* a street, an optional designator.                                       *)
(***************************************************************************)
HouseNumbers == { << >>, << "7" >>, << "0", "7" >>, << "8" >>, << "1", "7" >>, << "3", "0" >> }

Streets == { Str("OAK ST"), Str("OAK STREET"), Str("ELM RD") }

Designators ==
  { << >>, Str("APT 5"), Str("APT 6"), Str("UNIT 5"), Str("apt 5") }

\* city, state and zip, as they follow the address line in a full address
Locality == Str(", X, CT 1")

\* address lines with and without a designator, and full addresses without
AddressPool ==
  {JoinNonEmpty(<< h, st, d >>, << " " >>) :
     h \in HouseNumbers, st \in Streets, d \in Designators}
    \cup {JoinNonEmpty(<< h, st >>, << " " >>) \o Locality : h \in HouseNumbers, st \in Streets}

NoScore == -1

AddrIdle == addr1 = << >> /\ addr2 = << >> /\ address_score = NoScore /\ apc = "idle"

AddrInit ==
  /\ addr1 \in AddressPool
  /\ addr2 \in AddressPool
  /\ address_score = NoScore
  /\ apc = "call"

ScoreAddress ==
  /\ apc = "call"
  /\ address_score' = compute_address_score(addr1, addr2)
  /\ apc' = "returned"
  /\ UNCHANGED << addr1, addr2, match_vars, driver_vars, call_vars >>

NoReport == << "no report" >>

NoSchema == << "not detected" >>

DriverIdle ==
  /\ driver = "none" /\ columns = << >> /\ opens_missing = FALSE /\ dpc = "idle"
  /\ schema = NoSchema /\ std_frame = FALSE /\ report = NoReport
  /\ strategies_run = {} /\ found = {} /\ sheets_written = {} /\ exit_code = "None"

MatchIdle ==
  /\ df1 = << >> /\ df2 = << >> /\ match_type = "FullName"
  /\ threshold_arg = [given |-> FALSE, value |-> 0]
  /\ pc = "idle" /\ threshold = 0 /\ df2_list = << >> /\ search_strings = << >>
  /\ idx1 = 0 /\ best_score = 0 /\ best_idx2 = NoIdx /\ candidates = << >>
  /\ cpos = 1 /\ results = << >> /\ rescored = 0

Init == MatchInit /\ AddrIdle /\ DriverIdle /\ CallIdle

Next == MatchNext

Spec == Init /\ [][Next]_vars

\* the interpreter always takes the next step of the run
LiveSpec == Init /\ [][Next]_vars /\ WF_vars(Next)

AddressInit == AddrInit /\ MatchIdle /\ DriverIdle /\ CallIdle

AddressNext == ScoreAddress

AddressSpec == AddressInit /\ [][AddressNext]_vars

(***************************************************************************)
(* The drivers: preprocess the input sheet, run the enabled strategies,    *)
(* write the result sheets.  The rows of the sheets are not part of this   *)
(* machine: std_frame says whether a standardized frame was returned, and  *)
(* found which strategies returned a frame with rows.                      *)
(***************************************************************************)
Drivers == {"run_from_excel", "write_results_new_file", "process_file"}

\* headers an input sheet may carry: two spellings per canonical field and
\* one header that is no synonym
HeaderPool ==
  << Str("First Name"), Str("fname"), Str("LAST_NAME"), Str("Surname"),
     Str("Name"), Str("Full-Name"), Str("Address"), Str("street address"),
     Str("Addr 2"), Str("address2"), Str("City"), Str(" town "),
     Str("ST"), Str("State"), Str("Zip Code"), Str("zip"),
     Str("Full Address"), Str("MailingAddress"), Str("Phone") >>

\* the sheets of the model: a base layout (by positions in HeaderPool) plus
\* at most MaxExtra of the second spellings
BaseColumns ==
  { {}, {5}, {19}, {1, 3}, {17}, {3, 7, 11, 13, 15}, {1, 3, 7, 9, 11, 13, 15, 19} }

ExtraHeaders == {2, 4, 6, 8, 10, 12, 14, 16, 18}

MaxExtra == 2

HeadersAt(S) ==
  LET idx == SelectSeq([i \in 1..Len(HeaderPool) |-> i], LAMBDA i : i \in S)
  IN  [k \in 1..Len(idx) |-> HeaderPool[idx[k]]]

ColumnLists ==
  {HeadersAt(b \cup e) : b \in BaseColumns,
                         e \in {x \in SUBSET ExtraHeaders : Cardinality(x) <= MaxExtra}}

\* the first matching header of every canonical field that has one
first_candidates(df_columns) ==
  LET have == {k \in 1..Len(CanonicalOrder) :
                 candidate_headers(df_columns, HEADER_SYNONYMS[CanonicalOrder[k]]) # << >>}
  IN  [c \in {CanonicalOrder[k] : k \in have} |->
         DetectedField(candidate_headers(df_columns, HEADER_SYNONYMS[c])[1], "None")]

\* variant: on ambiguity the first matching header of each field is used
preprocess_input_variable_best_effort(df_columns) ==
  LET detected == detect_schema(df_columns)
      usable == IF detected.raised
                THEN with_full_address(with_first_last(with_full_name(
                       first_candidates(df_columns))))
                ELSE detected.mapping
  IN  [raised |-> FALSE, schema |-> detected, frame |-> TRUE,
       report |-> evaluate_match_types(usable)]

\* preprocess_input_variable(df, file, sheet): raises the SchemaError of
\* detect_schema, or returns the standardized frame and the strategy report
preprocess_input_variable(df_columns) ==
  LET detected == detect_schema(df_columns)
  IN  IF detected.raised
      THEN [raised |-> TRUE, schema |-> detected, frame |-> FALSE, report |-> NoReport]
      ELSE [raised |-> FALSE, schema |-> detected, frame |-> TRUE,
            report |-> evaluate_match_types(detected.mapping)]

DriverInit ==
  /\ driver \in Drivers
  /\ columns \in ColumnLists
  /\ opens_missing \in BOOLEAN
  /\ dpc = "preprocess"
  /\ schema = NoSchema
  /\ std_frame = FALSE
  /\ report = NoReport
  /\ strategies_run = {}
  /\ found = {}
  /\ sheets_written = {}
  /\ exit_code = "None"

\* the try block around preprocess_input_variable, SchemaError caught: the
\* message is shown and the driver returns
PreprocessRaises ==
  /\ dpc = "preprocess"
  /\ LET r == preprocess_input_variable(columns)
     IN  /\ r.raised
         /\ schema' = r.schema
         /\ std_frame' = r.frame
         /\ report' = r.report
  /\ dpc' = "returned"
  /\ exit_code' = IF driver = "write_results_new_file" THEN "2" ELSE "None"
  /\ UNCHANGED << driver, columns, opens_missing, strategies_run, found, sheets_written >>
  /\ UNCHANGED << match_vars, addr_vars, call_vars >>

\* preprocess_input_variable returns df1 and the report
PreprocessReturns ==
  /\ dpc = "preprocess"
  /\ LET r == preprocess_input_variable(columns)
     IN  /\ ~r.raised
         /\ schema' = r.schema
         /\ std_frame' = r.frame
         /\ report' = r.report
  /\ dpc' = "match"
  /\ UNCHANGED << driver, columns, opens_missing, strategies_run, found, sheets_written,
                  exit_code >>
  /\ UNCHANGED << match_vars, addr_vars, call_vars >>

\* variant: the strategies are run only when none of them is disabled
match_types_all_or_none(rep) ==
  IF \A mt \in MatchTypes : rep[mt].enabled THEN MatchTypes ELSE {}

\* match_types = [mt for mt in all_types if report.get(mt, {}).get('enabled')]
match_types(rep) == {mt \in MatchTypes : rep[mt].enabled}

\* match_types = the enabled strategies; run_specific_match for each
RunStrategies ==
  /\ dpc = "match"
  /\ strategies_run' = match_types(report)
  /\ found' \in SUBSET strategies_run'
  /\ dpc' = "write"
  /\ UNCHANGED << driver, columns, opens_missing, schema, std_frame, report,
                  sheets_written, exit_code >>
  /\ UNCHANGED << match_vars, addr_vars, call_vars >>

\* run_from_excel: a sheet per strategy run, then wb.save()
WriteAllSheets ==
  /\ dpc = "write"
  /\ driver = "run_from_excel"
  /\ opens_missing \/ found = strategies_run
  /\ sheets_written' = strategies_run
  /\ dpc' = "done"
  /\ UNCHANGED << driver, columns, opens_missing, schema, std_frame, report,
                  strategies_run, found, exit_code >>
  /\ UNCHANGED << match_vars, addr_vars, call_vars >>

\* run_from_excel: results_df['Sheet B Row'] of a frame without rows raises
\* KeyError, caught by the outer handler before wb.save()
WriteAllFails ==
  /\ dpc = "write"
  /\ driver = "run_from_excel"
  /\ ~opens_missing
  /\ found # strategies_run
  /\ dpc' = "failed"
  /\ UNCHANGED << driver, columns, opens_missing, schema, std_frame, report,
                  strategies_run, found, sheets_written, exit_code >>
  /\ UNCHANGED << match_vars, addr_vars, call_vars >>

\* write_results_new_file and process_file: a sheet per strategy with rows
WriteFoundSheets ==
  /\ dpc = "write"
  /\ driver \in {"write_results_new_file", "process_file"}
  /\ sheets_written' = found
  /\ exit_code' = IF driver = "write_results_new_file" THEN "0" ELSE "None"
  /\ dpc' = "done"
  /\ UNCHANGED << driver, columns, opens_missing, schema, std_frame, report,
                  strategies_run, found >>
  /\ UNCHANGED << match_vars, addr_vars, call_vars >>

DriverNext ==
  \/ PreprocessRaises
  \/ PreprocessReturns
  \/ RunStrategies
  \/ WriteAllSheets
  \/ WriteAllFails
  \/ WriteFoundSheets

DriverStart == DriverInit /\ MatchIdle /\ AddrIdle /\ CallIdle

DriverSpec == DriverStart /\ [][DriverNext]_vars

(***************************************************************************)
(* Single calls of the functions of schema_detection.py and                *)
(* fuzzy_matcher.py, each on arguments drawn from a finite set.            *)
(***************************************************************************)
\* the mappings evaluate_match_types may be given: any set of canonical
\* fields, each with a source header
Mappings ==
  {[c \in S |-> DetectedField(Str(c), "None")] : S \in SUBSET Range(CanonicalOrder)}

\* the columns a master sheet has besides the name and address columns
MasterColumns ==
  LET pool == {Str("Opens"), Str(" OPENS? "), Str("Opened"), Str("Opening"), Str("open"),
               Str("Reopens"), Str("Notes")}
  IN  {hs \in SeqsUpTo(pool, 2) : Len(hs) = 2 => hs[1] # hs[2]}

\* the raw values of a cell of such a column
RawCells == {NaN, << >>, Str("x"), Str(" X "), Str("xx"), Str("1")}

\* the full names split_full_name is called on
FullNames ==
  { << >>, Str(" "), Str("JANE"), Str(" jane "), Str("JANE DOE"), Str(" Jane  Doe "),
    Str("DOE JR"), Str("JANE DOE JR"), Str("Jane Doe jr."), Str("JANE DOE SR.."),
    Str("A B DOE III"), Str("JANE DOE ."), Str("JANE DOE JRX"), Str("A B C"),
    Str("JANE II IV"), Str("JR SR II") }

Calls ==
  {[callee |-> "evaluate_match_types", args |-> [mapping |-> m]] : m \in Mappings}
    \cup {[callee |-> "detect_schema", args |-> [df_columns |-> c]] : c \in ColumnLists}
    \cup {[callee |-> "get_combined_score",
             args |-> [scores |-> << f, l, a >>, match_type |-> mt]] :
             f \in {0, 1, Pct(50), 857142, Pct(100)}, l \in {0, 1, Pct(50), 857142, Pct(100)},
             a \in {0, 1, Pct(50), 857142, Pct(100)}, mt \in MatchTypes}
    \cup {[callee |-> "preprocess_input_variable",
             args |-> [full_name |-> n, first |-> f, last |-> l,
                       address1 |-> a, address2 |-> b, city |-> c, state |-> s, zip |-> z]] :
             n \in {None, Str("Jane Doe Jr")}, f \in {None, Str(" john")},
             l \in {None, Str("smith")},
             a \in {<< >>, Str(" "), Str("7 OAK ST")}, b \in {<< >>, Str("APT 5")},
             c \in {<< >>, Str("X")}, s \in {<< >>, Str("CT")},
             z \in {<< >>, Str(" "), Str("1")}}
    \cup {[callee |-> "preprocess_data",
             args |-> [address1 |-> a, city |-> c, state |-> s, zip |-> z]] :
             a \in {<< >>, Str(" "), Str("7 OAK ST APT 5")},
             c \in {<< >>, Str("X")}, s \in {<< >>, Str("CT")},
             z \in {<< >>, Str(" "), Str("1")}}
    \cup {[callee |-> "split_full_name", args |-> [full_name |-> nm]] : nm \in FullNames}
    \cup UNION {{[callee |-> "preprocess_master_with_opens",
                    args |-> [columns |-> hs, cells |-> cs]] :
                    cs \in [1..Len(hs) -> RawCells]} : hs \in MasterColumns}

CallInit ==
  /\ \E c \in Calls : callee = c.callee /\ args = c.args
  /\ returned = NoResult
  /\ fpc = "call"

\* report = evaluate_match_types(mapping)
CallEvaluateMatchTypes ==
  /\ fpc = "call"
  /\ callee = "evaluate_match_types"
  /\ returned' = evaluate_match_types(args.mapping)
  /\ fpc' = "returned"
  /\ UNCHANGED << callee, args, match_vars, addr_vars, driver_vars >>

\* mapping = detect_schema(df_columns, file=file, sheet=sheet)
CallDetectSchema ==
  /\ fpc = "call"
  /\ callee = "detect_schema"
  /\ returned' = detect_schema(args.df_columns)
  /\ fpc' = "returned"
  /\ UNCHANGED << callee, args, match_vars, addr_vars, driver_vars >>

\* std, report = preprocess_input_variable(df, file, sheet): the row of std
\* for a one-row sheet with Address1, Address2, City, State and Zip columns
\* and any of the FullName, First_Name and Last_Name columns
CallPreprocessInputVariable ==
  /\ fpc = "call"
  /\ callee = "preprocess_input_variable"
  /\ \E names \in {input_names(args.full_name, args.first, args.last)} :
        returned' = input_row(names[1], names[2], args.address1, args.address2, args.city,
                              args.state, args.zip)
  /\ fpc' = "returned"
  /\ UNCHANGED << callee, args, match_vars, addr_vars, driver_vars >>

\* preprocess_data(df): the row of the result for a one-row master sheet
CallPreprocessData ==
  /\ fpc = "call"
  /\ callee = "preprocess_data"
  /\ returned' = master_row(Str("J"), Str("S"), args.address1, args.city, args.state, args.zip)
  /\ fpc' = "returned"
  /\ UNCHANGED << callee, args, match_vars, addr_vars, driver_vars >>

\* accurate_score = get_combined_score(scores, match_type)
CallGetCombinedScore ==
  /\ fpc = "call"
  /\ callee = "get_combined_score"
  /\ returned' = get_combined_score(args.scores, args.match_type)
  /\ fpc' = "returned"
  /\ UNCHANGED << callee, args, match_vars, addr_vars, driver_vars >>

\* first, last = split_full_name(full_name)
CallSplitFullName ==
  /\ fpc = "call"
  /\ callee = "split_full_name"
  /\ returned' = split_full_name(args.full_name)
  /\ fpc' = "returned"
  /\ UNCHANGED << callee, args, match_vars, addr_vars, driver_vars >>

\* df2, opens_missing = preprocess_master_with_opens(master_raw)
CallPreprocessMasterWithOpens ==
  /\ fpc = "call"
  /\ callee = "preprocess_master_with_opens"
  /\ returned' = preprocess_master_with_opens(
                   args.columns, args.cells,
                   master_row(Str("J"), Str("S"), Str("7 OAK ST"), Str("X"), Str("CT"), Str("1")))
  /\ fpc' = "returned"
  /\ UNCHANGED << callee, args, match_vars, addr_vars, driver_vars >>

CallNext ==
  \/ CallPreprocessMasterWithOpens
  \/ CallSplitFullName
  \/ CallEvaluateMatchTypes
  \/ CallDetectSchema
  \/ CallPreprocessInputVariable
  \/ CallPreprocessData
  \/ CallGetCombinedScore

CallStart == CallInit /\ MatchIdle /\ AddrIdle /\ DriverIdle

CallSpec == CallStart /\ [][CallNext]_vars

(***************************************************************************)
(* Every place a score is produced: a run of run_specific_match, a call of *)
(* compute_address_score, a call of get_combined_score.                    *)
(***************************************************************************)
ScoreStart == Init \/ AddressInit \/ CallStart

ScoreNext == Next \/ AddressNext \/ CallNext

ScoreSpec == ScoreStart /\ [][ScoreNext]_vars

(***************************************************************************)
(* Properties of run_specific_match.  Input rows 0 .. idx1 - 1 have been   *)
(* processed; a result row refers to its input row by Sheet_A_Row - 2 and  *)
(* to its master row by Sheet_B_Row - 2.                                   *)
(***************************************************************************)
RecordsOf(i) == {results[k] : k \in {j \in 1..Len(results) : results[j].Sheet_A_Row = i + 2}}

InputOf(rec) == df1[rec.Sheet_A_Row - 1]

MasterOf(rec) == df2[rec.Sheet_B_Row - 1]

\* the threshold the caller's argument and the strategy stand for
ThresholdInForce(arg, mt) ==
  IF arg.given THEN arg.value
  ELSE CASE mt = "FullName" -> 85 * Scale
         [] mt = "LastNameAddress" -> 75 * Scale
         [] mt = "FullAddress" -> 80 * Scale

\* master indices the strategy may pair with an input row
Eligible(frame, mt) ==
  {m \in 0..(Len(frame) - 1) : mt = "FullName" \/ frame[m + 1].FullAddress # << >>}

\* the approximate and the exact score of an input row against every
\* master row of a frame (entry m + 1 for master index m)
ApproxRow(row1, frame, mt) ==
  Tabulate(Len(frame), LAMBDA k : approx_score(row1, frame[k], mt))

ExactRow(row1, frame, mt) ==
  Tabulate(Len(frame), LAMBDA k : exact_score(row1, frame[k], mt))

\* the order of the shortlist: higher approximate score first, equal
\* approximate scores by master index
RanksBefore(apx, a, b) ==
  \/ apx[a + 1] > apx[b + 1]
  \/ apx[a + 1] = apx[b + 1] /\ a < b

\* the masters that are rescored for an input row: among the ShortlistLimit
\* eligible masters of highest approximate score, those whose approximate
\* score reaches 0.8 times the threshold; none for a skipped row
Shortlisted(row1, frame, mt, thr) ==
  LET apx == ApproxRow(row1, frame, mt)
      E == Eligible(frame, mt)
  IN  IF mt = "FullAddress" /\ row1.FullAddress = << >> THEN {}
      ELSE {m \in E :
              /\ 10 * apx[m + 1] >= 8 * thr
              /\ Cardinality({n \in E : RanksBefore(apx, n, m)}) < ShortlistLimit}

\* the members of S of highest exact score
Best(ex, S) == {m \in S : \A n \in S : ex[m + 1] >= ex[n + 1]}

\* C1: the result set holds at most one MatchRecord per input row index.
C1_OnePerInput ==
  \A j, k \in 1..Len(results) : results[j].Sheet_A_Row = results[k].Sheet_A_Row => j = k

\* two input rows were matched, both against the same master row
C1_Witness ==
  /\ pc = "done"
  /\ Len(results) = 2
  /\ results[1].Sheet_B_Row = results[2].Sheet_B_Row

\* C2 (as claimed): an input row has a MatchRecord iff the maximum exact
\* score over all eligible master rows reaches the threshold, and the record
\* names a master row attaining that maximum.
C2_Exhaustive ==
  \A i \in 0..(idx1 - 1) :
    LET ex == ExactRow(df1[i + 1], df2, match_type)
        top == Best(ex, Eligible(df2, match_type))
    IN  /\ RecordsOf(i) # {} <=> \E m \in top : ex[m + 1] >= threshold
        /\ \A rec \in RecordsOf(i) : rec.Sheet_B_Row - 2 \in top

\* C2 (amended): an input row has a MatchRecord iff the maximum exact score
\* over its shortlisted master rows reaches the threshold and is above 0, and
\* the record names a shortlisted master row attaining that maximum.
C2_OverShortlist ==
  \A i \in 0..(idx1 - 1) :
    LET ex == ExactRow(df1[i + 1], df2, match_type)
        top == Best(ex, Shortlisted(df1[i + 1], df2, match_type, threshold))
    IN  /\ RecordsOf(i) # {} <=> \E m \in top : ex[m + 1] >= threshold /\ ex[m + 1] > 0
        /\ \A rec \in RecordsOf(i) : rec.Sheet_B_Row - 2 \in top

\* an input row stays unmatched although an eligible master row outside its
\* shortlist has an exact score at the threshold and an approximate score at
\* the cut-off: the shortlist was full
C2_Witness ==
  /\ pc = "done"
  /\ \E i \in 0..(Len(df1) - 1) :
       LET ex == ExactRow(df1[i + 1], df2, match_type)
           apx == ApproxRow(df1[i + 1], df2, match_type)
       IN  /\ RecordsOf(i) = {}
           /\ \E m \in Eligible(df2, match_type) :
                /\ ex[m + 1] >= threshold
                /\ ex[m + 1] > 0
                /\ 10 * apx[m + 1] >= 8 * threshold
                /\ m \notin Shortlisted(df1[i + 1], df2, match_type, threshold)

\* C3: the combined score of every MatchRecord reaches the threshold in
\* force: the caller's value when one is given (0.0 included), otherwise
\* 85 for FullName, 75 for LastNameAddress, 80 for FullAddress.
C3_ScoreReachesThreshold ==
  \A k \in 1..Len(results) :
    LET score == exact_score(InputOf(results[k]), MasterOf(results[k]), match_type)
    IN  /\ score >= ThresholdInForce(threshold_arg, match_type)
        /\ results[k].Match_Score = Round2(score)

\* under a default threshold one input row was matched and another one,
\* whose best candidate scores above 0 and under the threshold, was not
C3_Witness ==
  /\ pc = "done"
  /\ ~threshold_arg.given
  /\ results # << >>
  /\ \E i \in 0..(Len(df1) - 1) :
       LET ex == ExactRow(df1[i + 1], df2, match_type)
       IN  /\ RecordsOf(i) = {}
           /\ \E m \in Shortlisted(df1[i + 1], df2, match_type, threshold) : ex[m + 1] > 0

row_outcome(i, row1, frame, mt, arg) ==
  LET thr == ThresholdInForce(arg, mt)
      ex == ExactRow(row1, frame, mt)
      apx == ApproxRow(row1, frame, mt)
      top == Best(ex, Shortlisted(row1, frame, mt, thr))
      sel == CHOOSE m \in top : \A n \in top \ {m} : RanksBefore(apx, m, n)
  IN  IF top = {} THEN {}
      ELSE IF ex[sel + 1] < thr \/ ex[sel + 1] = 0 THEN {}
      ELSE {[Match_Score |-> Round2(ex[sel + 1]),
             Sheet_A_Row |-> i + 2,
             Sheet_B_Row |-> sel + 2,
             Name_A |-> Strip(Spaced(row1.First_Name, row1.Last_Name)),
             Name_B |-> Strip(Spaced(frame[sel + 1].First_Name, frame[sel + 1].Last_Name)),
             Address_A |-> row1.FullAddress,
             Address_B |-> frame[sel + 1].FullAddress]}

\* C5: the MatchRecord of an input row, or its absence, is a function of the
\* row, the master table, the strategy and the threshold only: it does not
\* depend on the other rows of the batch or on their order.
C5_FunctionOfRow ==
  \A i \in 0..(idx1 - 1) :
    RecordsOf(i) = row_outcome(i, df1[i + 1], df2, match_type, threshold_arg)

\* a batch of two different input rows, matched against different master
\* rows with different scores
C5_Witness ==
  /\ pc = "done"
  /\ Len(results) = 2
  /\ df1[1] # df1[2]
  /\ results[1].Sheet_B_Row # results[2].Sheet_B_Row
  /\ results[1].Match_Score # results[2].Match_Score

\* C8 (as claimed): under FullAddress and LastNameAddress no MatchRecord
\* pairs records of which one has an empty FullAddress.
C8_NoEmptyFullAddress ==
  match_type \in {"FullAddress", "LastNameAddress"} =>
    \A k \in 1..Len(results) :
      /\ InputOf(results[k]).FullAddress # << >>
      /\ MasterOf(results[k]).FullAddress # << >>

\* C8 (amended): under FullAddress no MatchRecord pairs records of which one
\* has an empty FullAddress; under LastNameAddress no MatchRecord names a
\* master row whose FullAddress is empty.
C8_AddressStrategies ==
  \A k \in 1..Len(results) :
    /\ match_type = "FullAddress" => InputOf(results[k]).FullAddress # << >>
    /\ match_type \in {"FullAddress", "LastNameAddress"} =>
         MasterOf(results[k]).FullAddress # << >>

\* an address strategy has matched a row against a master table whose first
\* row has no FullAddress, with an input row without FullAddress in the batch
C8_Witness ==
  /\ pc = "done"
  /\ match_type \in {"FullAddress", "LastNameAddress"}
  /\ results # << >>
  /\ Len(df2) >= 2 /\ df2[1].FullAddress = << >>
  /\ \E i \in 1..Len(df1) : df1[i].FullAddress = << >>

(***************************************************************************)
(* Properties of compute_address_score.                                    *)
(***************************************************************************)
HouseOf(addr) == LeadingDigits(Strip(addr))

EqualHouseNumbers(a, b) ==
  /\ HouseOf(a) # << >>
  /\ HouseOf(b) # << >>
  /\ ParseInt(HouseOf(a)) = ParseInt(HouseOf(b))

\* both addresses have a designator, and the two differ in type or in
\* identifier, letter case aside
DesignatorsDiffer(a, b) ==
  /\ HasDesignator(a)
  /\ HasDesignator(b)
  /\ \/ Upper(AptSearch(a).type) # Upper(AptSearch(b).type)
     \/ Upper(AptSearch(a).ident) # Upper(AptSearch(b).ident)

OneDesignator(a, b) == HasDesignator(a) # HasDesignator(b)

\* C6: equal leading house numbers and designators on both sides that differ
\* in type or identifier: compute_address_score returns 0.
C6_DifferentDesignatorsScoreZero ==
  (apc = "returned" /\ EqualHouseNumbers(addr1, addr2) /\ DesignatorsDiffer(addr1, addr2))
    => address_score = 0

\* house numbers written differently but equal, designators of different
\* types with the same identifier
C6_Witness ==
  /\ apc = "returned"
  /\ EqualHouseNumbers(addr1, addr2)
  /\ HouseOf(addr1) # HouseOf(addr2)
  /\ DesignatorsDiffer(addr1, addr2)
  /\ Upper(AptSearch(addr1).ident) = Upper(AptSearch(addr2).ident)

\* C7 (as claimed): a designator on exactly one side: compute_address_score
\* returns 0, whatever the house numbers.
C7_OneSidedDesignatorScoresZero ==
  (apc = "returned" /\ OneDesignator(addr1, addr2)) => address_score = 0

\* C7 (amended): equal leading house numbers and a designator on exactly one
\* side: compute_address_score returns 0.
C7_OneSidedSameHouseScoresZero ==
  (apc = "returned" /\ EqualHouseNumbers(addr1, addr2) /\ OneDesignator(addr1, addr2))
    => address_score = 0

\* the same house number and street on both sides, a designator on the
\* second only
C7_Witness ==
  /\ apc = "returned"
  /\ EqualHouseNumbers(addr1, addr2)
  /\ ~HasDesignator(addr1)
  /\ HasDesignator(addr2)
  /\ strip_property_designators(addr2) = addr1

(***************************************************************************)
(* Properties of detect_schema and of the drivers.                         *)
(***************************************************************************)
\* the synonyms of every canonical field, normalized
NormalizedSynonyms ==
  Tabulate(Len(CanonicalOrder), LAMBDA k :
    {normalize_header(HEADER_SYNONYMS[CanonicalOrder[k]][j]) :
       j \in 1..Len(HEADER_SYNONYMS[CanonicalOrder[k]])})

\* the headers that are, after normalization, a synonym of the canonical
\* field
MatchedHeaders(cols, canonical) ==
  LET synonyms == NormalizedSynonyms[IndexOf(CanonicalOrder, canonical)]
  IN  SelectSeq(cols, LAMBDA h : normalize_header(h) \in synonyms)

\* the canonical fields that two or more of the headers match
AmbiguousFields(cols) ==
  LET norms == Tabulate(Len(cols), LAMBDA i : normalize_header(cols[i]))
  IN  {CanonicalOrder[k] : k \in {j \in 1..Len(CanonicalOrder) :
         Cardinality({i \in 1..Len(cols) : norms[i] \in NormalizedSynonyms[j]}) >= 2}}

Detected == dpc \notin {"idle", "preprocess"}

\* C9: when two or more headers match the synonyms of one canonical field,
\* whichever field it is, detect_schema raises a SchemaError that names the
\* matching headers of such a field, and returns no mapping.
C9_AmbiguousHeadersRaise ==
  (Detected /\ AmbiguousFields(columns) # {}) =>
    /\ schema.raised
    /\ schema.mapping = NoMapping
    /\ schema.error.canonical \in AmbiguousFields(columns)
    /\ schema.error.columns = MatchedHeaders(columns, schema.error.canonical)

\* a sheet with every field present once and a second Address2 header
C9_Witness ==
  /\ Detected
  /\ AmbiguousFields(columns) = {"Address2"}
  /\ Len(columns) >= 9
  /\ schema.raised
  /\ Len(schema.error.columns) = 2

\* C10: after an ambiguous-header error preprocess_input_variable has
\* returned neither frame nor report, and the driver, whichever it is, has
\* returned without running a strategy or writing a result sheet.
C10_AmbiguityBlocksDriver ==
  (Detected /\ schema.raised) =>
    /\ dpc = "returned"
    /\ ~std_frame
    /\ report = NoReport
    /\ strategies_run = {}
    /\ found = {}
    /\ sheets_written = {}

\* process_file has returned on an ambiguous FullName header of a sheet that
\* would otherwise enable the FullName strategy
C10_Witness ==
  /\ dpc = "returned"
  /\ driver = "process_file"
  /\ schema.raised
  /\ schema.error.canonical = "FullName"
  /\ AmbiguousFields(columns) = {"FullName"}

(***************************************************************************)
(* Properties of single calls.                                             *)
(***************************************************************************)
Returned(f) == fpc = "returned" /\ callee = f

\* what the strategies require of a mapping
RequirementsMet(mapping, mt) ==
  LET has(f) == f \in DOMAIN mapping
      parts == has("Address1") /\ has("City") /\ has("State") /\ has("Zip")
  IN  CASE mt = "FullName" -> (has("First_Name") /\ has("Last_Name")) \/ has("FullName")
        [] mt = "LastNameAddress" -> has("Last_Name") /\ (has("FullAddress") \/ parts)
        [] mt = "FullAddress" -> has("FullAddress") \/ parts

\* C11: evaluate_match_types enables each strategy exactly when the mapping
\* meets its requirements, and a strategy carries a non-empty reason
\* exactly when it is disabled.
C11_ReportMatchesRequirements ==
  Returned("evaluate_match_types") =>
    \A mt \in MatchTypes :
      /\ returned[mt].enabled <=> RequirementsMet(args.mapping, mt)
      /\ returned[mt].reason \notin {"None", ""} <=> ~returned[mt].enabled

\* the four address parts are mapped and no name field: FullAddress is
\* enabled, the two other strategies are disabled with their reasons
C11_Witness ==
  /\ Returned("evaluate_match_types")
  /\ DOMAIN args.mapping = {"Address1", "City", "State", "Zip"}
  /\ returned.FullAddress.enabled
  /\ ~returned.LastNameAddress.enabled
  /\ ~returned.FullName.enabled
  /\ returned.FullName.reason = "Missing First/Last and FullName"

(***************************************************************************)
(* Properties of the drivers: the strategies that are run.                 *)
(***************************************************************************)
\* the driver is past the calls of run_specific_match
StrategiesDone == dpc \in {"write", "done", "failed"}

\* C12: in every driver run_specific_match is called for exactly the
\* strategies the report enables: never for a disabled one, and for every
\* enabled one, whatever the other strategies are.
C12_EnabledStrategiesRun ==
  /\ \A mt \in strategies_run : std_frame /\ report[mt].enabled
  /\ StrategiesDone => \A mt \in MatchTypes : report[mt].enabled => mt \in strategies_run

\* a sheet with names only: FullName was run, the two address strategies,
\* disabled with a reason, were not
C12_Witness ==
  /\ dpc = "done"
  /\ strategies_run = {"FullName"}
  /\ ~report.FullAddress.enabled
  /\ report.FullAddress.reason = "Missing FullAddress/parts"
  /\ ~report.LastNameAddress.enabled

(***************************************************************************)
(* Properties of the mapping detect_schema returns.                        *)
(***************************************************************************)
MappingReturned == Detected /\ ~schema.raised

\* the canonical field has a source header among the columns
HasSource(cols, f) == MatchedHeaders(cols, f) # << >>

\* the cases in which a canonical field is to be a derived entry
Derivable(cols, f) ==
  CASE f = "FullName" ->
         HasSource(cols, "First_Name") /\ HasSource(cols, "Last_Name") /\ ~HasSource(cols, f)
    [] f \in {"First_Name", "Last_Name"} -> HasSource(cols, "FullName") /\ ~HasSource(cols, f)
    [] f = "FullAddress" ->
         /\ \A q \in {"Address1", "City", "State", "Zip"} : HasSource(cols, q)
         /\ ~HasSource(cols, f)
    [] OTHER -> FALSE

\* C13: in the mapping detect_schema returns, a field is a derived entry
\* (no source, a derivation) exactly in the three derivation cases; every
\* other entry has its source header and no derivation; a field with
\* neither stays absent.
C13_DerivedEntries ==
  MappingReturned =>
    \A k \in 1..Len(CanonicalOrder) :
      LET f == CanonicalOrder[k]
          m == schema.mapping
      IN  /\ f \in DOMAIN m <=> (HasSource(columns, f) \/ Derivable(columns, f))
          /\ f \in DOMAIN m =>
                IF Derivable(columns, f)
                THEN m[f].source = None /\ m[f].derived # "None"
                ELSE /\ << m[f].source >> = MatchedHeaders(columns, f)
                     /\ m[f].derived = "None"

\* a sheet with first and last name, the four address parts and Address2:
\* FullName and FullAddress are derived, Address2 has its header
C13_Witness ==
  /\ MappingReturned
  /\ {"First_Name", "FullName", "Address2", "FullAddress"} \subseteq DOMAIN schema.mapping
  /\ schema.mapping["FullName"].source = None
  /\ schema.mapping["FullAddress"].source = None
  /\ schema.mapping["Address2"].source # None
  /\ schema.mapping["First_Name"].derived = "None"

\* C14: the mapping detect_schema returns is one to one: a canonical field
\* has one entry with at most one source header, no header is the source of
\* two canonical fields, and the normalized synonyms of two canonical
\* fields have nothing in common.
C14_OneToOne ==
  /\ \A j, k \in 1..Len(CanonicalOrder) :
        j # k => NormalizedSynonyms[j] \cap NormalizedSynonyms[k] = {}
  /\ MappingReturned =>
        LET m == schema.mapping
        IN  /\ \A f \in DOMAIN m : Len(MatchedHeaders(columns, f)) <= 1
            /\ \A f, g \in DOMAIN m :
                  (f # g /\ m[f].source # None) => m[f].source # m[g].source

\* all nine canonical fields are mapped, seven of them to a header each
C14_Witness ==
  /\ MappingReturned
  /\ DOMAIN schema.mapping = Range(CanonicalOrder)
  /\ Cardinality({schema.mapping[f].source : f \in DOMAIN schema.mapping} \ {None}) = 7

(***************************************************************************)
(* Properties of detect_schema on reformatted and reordered header lists   *)
(***************************************************************************)
\* a header lower-cased, trimmed, every non-alphanumeric character removed
Normalized(h) == SelectSeq(Lower(Strip(h)), LAMBDA c : c \in (LowerLetters \cup Digits))

\* the same header in capitals, padded, "_" for " " and a closing "."
Reformatted(h) ==
  Str("  ") \o [i \in 1..Len(h) |-> IF h[i] = " " THEN "_" ELSE UpperChar(h[i])] \o Str(". ")

Reversed(s) == [i \in 1..Len(s) |-> s[Len(s) + 1 - i]]

ReformattedList(s) == [i \in 1..Len(s) |-> Reformatted(s[i])]

\* other ways of writing the header list s
Rewritings(s) ==
  {Reversed(s), ReformattedList(s), Reversed(ReformattedList(s)),
   [i \in 1..Len(s) |-> IF i = 1 THEN Reformatted(s[i]) ELSE s[i]]}

\* the two lists hold the same normalized headers, each as many times
EqualAfterNormalization(s, t) ==
  /\ Len(s) = Len(t)
  /\ \A i \in 1..Len(s) :
        Cardinality({j \in 1..Len(s) : Normalized(s[j]) = Normalized(s[i])})
          = Cardinality({j \in 1..Len(t) : Normalized(t[j]) = Normalized(s[i])})

\* the canonical fields and derivation tags of a result, or the failure
FieldsAndTags(r) ==
  IF r.raised THEN << "raised" >>
  ELSE << [f \in DOMAIN r.mapping |-> r.mapping[f].derived] >>

\* C15: detect_schema on a list that is equal after normalization to the
\* list of the call, in any order, gives the same canonical fields with the
\* same derivation tags (or fails as well), and on the same list the same
\* mapping.
C15_FormatAndOrderInsensitive ==
  Returned("detect_schema") =>
    /\ detect_schema(args.df_columns) = returned
    /\ \A other \in Rewritings(args.df_columns) :
          EqualAfterNormalization(args.df_columns, other) =>
            FieldsAndTags(detect_schema(other)) = FieldsAndTags(returned)

\* a mapping with derived entries returned for a list of several headers,
\* all of whose rewritings are equal to it after normalization and differ
\* from it as lists
C15_Witness ==
  /\ Returned("detect_schema")
  /\ ~returned.raised
  /\ Len(args.df_columns) >= 5
  /\ \E f \in DOMAIN returned.mapping : returned.mapping[f].derived # "None"
  /\ \A other \in Rewritings(args.df_columns) :
        other # args.df_columns /\ EqualAfterNormalization(args.df_columns, other)

(***************************************************************************)
(* Properties of the derived FullAddress of a normalized record            *)
(***************************************************************************)
FourPartsPresent(rec) ==
  rec.Address1 # << >> /\ rec.City # << >> /\ rec.State # << >> /\ rec.Zip # << >>

\* C16: the derived FullAddress of a normalized record, input side or
\* master side, is non-empty exactly when its Address1, City, State and Zip
\* are all non-empty.
C16_FullAddressIffFourParts ==
  (Returned("preprocess_input_variable") \/ Returned("preprocess_data")) =>
    (returned.FullAddress # << >> <=> FourPartsPresent(returned))

(***************************************************************************)
(* Properties of get_combined_score                                        *)
(***************************************************************************)
\* r is the arithmetic mean of a and b, to the precision scores are kept at
IsMean(r, a, b) == 2 * r <= a + b /\ a + b < 2 * r + 2

\* C17: get_combined_score returns, under FullName, the mean of the first
\* and last name scores, or 0 if one of them is 0; under LastNameAddress
\* the mean of the last name and address scores, or 0 if one of them is 0;
\* under FullAddress the address score, whatever the name scores.
C17_CombinationRules ==
  Returned("get_combined_score") =>
    LET first == args.scores[1]
        last == args.scores[2]
        address == args.scores[3]
    IN  /\ args.match_type = "FullName" =>
              IF first = 0 \/ last = 0 THEN returned = 0 ELSE IsMean(returned, first, last)
        /\ args.match_type = "LastNameAddress" =>
              IF last = 0 \/ address = 0 THEN returned = 0
              ELSE IsMean(returned, last, address)
        /\ args.match_type = "FullAddress" => returned = address

\* a perfect last name does not make up for a first name score of 0
C17_Witness ==
  /\ Returned("get_combined_score")
  /\ args.match_type = "FullName"
  /\ args.scores[1] = 0
  /\ args.scores[2] = Pct(100)
  /\ returned = 0

(***************************************************************************)
(* Properties of every score produced                                      *)
(***************************************************************************)
InRange(x) == 0 <= x /\ x <= Pct(100)

\* C18: every value compute_address_score returns, every value
\* get_combined_score returns for component scores in [0, 100], and every
\* 'Match Score' of a result row lies in [0, 100].
C18_ScoresInRange ==
  /\ apc = "returned" => InRange(address_score)
  /\ Returned("get_combined_score") => InRange(returned)
  /\ InRange(best_score)
  /\ \A k \in 1..Len(results) : InRange(results[k].Match_Score)

\* a result row with the highest score there is
C18_Witness ==
  /\ pc = "done"
  /\ \E k \in 1..Len(results) : results[k].Match_Score = Pct(100)

(***************************************************************************)
(* Properties of run_specific_match for a strategy tag it does not know    *)
(***************************************************************************)
\* C19: a call of run_specific_match with a tag other than FullName,
\* LastNameAddress and FullAddress never returns a result set, whatever the
\* tables, empty ones included.
C19_UnknownTagNeverReturns == match_type \notin MatchTypes => pc # "done"

(***************************************************************************)
(* Properties of the strategies on records that differ in the designator   *)
(***************************************************************************)
\* the run is over, on an input row and a master row that differ in the
\* unit designator only
DesignatorScenarioDone == pc = "done" /\ << df1, df2 >> \in ScenarioTables

\* C20 as stated: on an input record and a master record that differ in the
\* unit designator only, LastNameAddress yields exactly one match and
\* FullAddress yields none.
C20_DesignatorScenario ==
  DesignatorScenarioDone =>
    /\ match_type = "LastNameAddress" => Len(results) = 1
    /\ match_type = "FullAddress" => Len(results) = 0

\* C20 amended: the same for records whose last name is not empty and whose
\* address begins with a house number.
C20_DesignatorScenarioWithHouseAndName ==
  (DesignatorScenarioDone /\ df1[1].Last_Name # << >> /\ HouseOf(df1[1].FullAddress) # << >>) =>
    /\ match_type = "LastNameAddress" => Len(results) = 1
    /\ match_type = "FullAddress" => Len(results) = 0

\* STE 12 against SUITE 12 at house number 7: matched under LastNameAddress
C20_Witness ==
  /\ DesignatorScenarioDone
  /\ df1[1].Last_Name # << >>
  /\ HouseOf(df1[1].FullAddress) # << >>
  /\ match_type = "LastNameAddress"
  /\ Len(results) = 1
  /\ results[1].Address_A = Str("7 OAK ST STE 12, X, CT 1")
  /\ results[1].Address_B = Str("7 OAK ST SUITE 12, X, CT 1")

(***************************************************************************)
(* C21: split_full_name                                                    *)
(***************************************************************************)
\* tok, with its trailing periods dropped and in upper case, is one of JR,
\* SR, II, III, IV
IsSuffixToken(tok) ==
  \E k \in 0..Len(tok) :
    /\ \A j \in (k + 1)..Len(tok) : tok[j] = "."
    /\ k > 0 => tok[k] # "."
    /\ Upper(SubSeq(tok, 1, k)) \in {Str("JR"), Str("SR"), Str("II"), Str("III"), Str("IV")}

\* the tokens of a name: its maximal runs of non-space characters, in order
TokensOf(name) ==
  LET starts == {i \in 1..Len(name) : name[i] # " " /\ (i = 1 \/ name[i - 1] = " ")}
      endOf(i) == CHOOSE e \in i..Len(name) :
                    /\ \A j \in i..e : name[j] # " "
                    /\ (e = Len(name) \/ name[e + 1] = " ")
      RECURSIVE from(_)
      from(S) == IF S = {} THEN << >>
                 ELSE LET i == CHOOSE x \in S : \A y \in S : x <= y
                      IN  << SubSeq(name, i, endOf(i)) >> \o from(S \ {i})
  IN  from(starts)

\* C21: split_full_name follows the last-space rule with suffix absorption:
\* no token gives ("", ""); one token gives (token, ""); three or more
\* tokens ending in a suffix token give last = the final two tokens; every
\* other name gives last = the final token; first is the remaining tokens,
\* and the tokens of first followed by those of last are the tokens of the
\* name in order.
C21_SplitFullName ==
  Returned("split_full_name") =>
    LET toks == TokensOf(args.full_name)
        n == Len(toks)
        first == returned[1]
        last == returned[2]
        k == IF n >= 3 /\ IsSuffixToken(toks[n]) THEN 2 ELSE 1
    IN  /\ n = 0 => first = << >> /\ last = << >>
        /\ n = 1 => first = toks[1] /\ last = << >>
        /\ n >= 2 => /\ TokensOf(last) = SubSeq(toks, n - k + 1, n)
                     /\ TokensOf(first) = SubSeq(toks, 1, n - k)
        /\ TokensOf(first) \o TokensOf(last) = toks

\* a name of three tokens ending in a suffix token has been split, and its
\* last name holds two tokens
C21_Witness ==
  /\ Returned("split_full_name")
  /\ Len(TokensOf(args.full_name)) >= 3
  /\ IsSuffixToken(TokensOf(args.full_name)[Len(TokensOf(args.full_name))])
  /\ Len(TokensOf(returned[2])) = 2

(***************************************************************************)
(* C22: house-number distance                                              *)
(***************************************************************************)
\* what follows the leading house number of an address
AfterHouse(addr) == From(Strip(addr), Len(HouseOf(addr)) + 1)

\* two addresses with house numbers and no designator that agree in street,
\* city, state and zip
SamePlaceButHouse(a, b) ==
  /\ HouseOf(a) # << >> /\ HouseOf(b) # << >>
  /\ ~HasDesignator(a) /\ ~HasDesignator(b)
  /\ StreetOf(a) # << >>
  /\ AfterHouse(a) = AfterHouse(b)

\* the distance class of two house numbers: 0 (equal), 1 (1..2 apart),
\* 2 (3..10 apart), 3 (more than 10 apart)
DistanceClass(a, b) ==
  LET diff == Abs(ParseInt(HouseOf(a)) - ParseInt(HouseOf(b)))
  IN  IF diff = 0 THEN 0 ELSE IF diff <= 2 THEN 1 ELSE IF diff <= 10 THEN 2 ELSE 3

\* C22: among addresses with the same street, city, state and zip and no
\* designator, a pair in a farther house-number distance class scores
\* strictly lower than a pair in a nearer one.
C22_DistanceMonotone ==
  (apc = "returned" /\ SamePlaceButHouse(addr1, addr2)) =>
    \A other \in AddressPool :
      (SamePlaceButHouse(addr1, other)
         /\ DistanceClass(addr1, other) > DistanceClass(addr1, addr2))
        => compute_address_score(addr1, other) < address_score

\* a pair 1..2 apart has been scored, and the pool holds an address 3..10
\* away and one more than 10 away at the same place, with city, state and zip
C22_Witness ==
  /\ apc = "returned"
  /\ SamePlaceButHouse(addr1, addr2)
  /\ DistanceClass(addr1, addr2) = 1
  /\ \E c \in 1..Len(addr1) : addr1[c] = ","
  /\ \E o2, o3 \in AddressPool :
       /\ SamePlaceButHouse(addr1, o2) /\ DistanceClass(addr1, o2) = 2
       /\ SamePlaceButHouse(addr1, o3) /\ DistanceClass(addr1, o3) = 3

(***************************************************************************)
(* C23: street-name gate                                                   *)
(***************************************************************************)
\* no designator on either side, or the same designator (type and
\* identifier, letter case aside) on both
PassesDesignatorCheck(a, b) ==
  \/ ~HasDesignator(a) /\ ~HasDesignator(b)
  \/ HasDesignator(a) /\ HasDesignator(b) /\ ~DesignatorsDiffer(a, b)

\* token-set similarity of the abbreviation-normalized street names
StreetSimilarity(a, b) ==
  token_set_ratio(normalize_street(StreetOf(a)), normalize_street(StreetOf(b)))

OpensLike(header) ==
  SelectSeq(Lower(Strip(header)), LAMBDA c : c \in (LowerLetters \cup Digits))
    \in {Str("opens"), Str("open"), Str("opened"), Str("opening")}

\* C24: opens_missing is returned true, and no Opens column added, exactly
\* when no header is opens-like; otherwise the row's Opens is "x" exactly
\* when the raw cell of the (first) opens-like column, trimmed and
\* lower-cased, is "x", and blank for every other value and a missing cell.
C24_OpensTriState ==
  Returned("preprocess_master_with_opens") =>
    LET df2_row == returned[1]
        opens_missing_flag == returned[2]
        hits == {k \in 1..Len(args.columns) : OpensLike(args.columns[k])}
    IN  /\ opens_missing_flag <=> hits = {}
        /\ opens_missing_flag <=> "Opens" \notin DOMAIN df2_row
        /\ \A k \in hits :
             (\A j \in hits : k <= j) =>
               /\ df2_row.Opens \in {<< "x" >>, << >>}
               /\ df2_row.Opens = << "x" >> <=>
                    (args.cells[k] # NaN /\ Lower(Strip(args.cells[k])) = << "x" >>)

\* an opens-like header after another column, its cell " X ": Opens is "x"
C24_Witness ==
  /\ Returned("preprocess_master_with_opens")
  /\ Len(args.columns) = 2
  /\ ~OpensLike(args.columns[1])
  /\ OpensLike(args.columns[2])
  /\ args.cells[2] = Str(" X ")
  /\ returned[1].Opens = << "x" >>
  /\ returned[2] = FALSE

(***************************************************************************)
(* C25: far-apart house numbers under the default thresholds               *)
(***************************************************************************)
\* the distance of the leading house numbers of two addresses that both
\* have one (-1 when one has none)
HouseDistance(a, b) ==
  IF HouseOf(a) # << >> /\ HouseOf(b) # << >>
  THEN Abs(ParseInt(HouseOf(a)) - ParseInt(HouseOf(b)))
  ELSE -1

\* C25: under the default thresholds no record is emitted under FullAddress
\* for a pair whose house numbers are 3 or more apart, and none under
\* LastNameAddress for a pair whose house numbers, designators stripped, are
\* more than 10 apart.
C25_FarApartRejected ==
  ~threshold_arg.given =>
    \A k \in 1..Len(results) :
      LET row1 == InputOf(results[k])
          row2 == MasterOf(results[k])
      IN  /\ match_type = "FullAddress" =>
               HouseDistance(row1.FullAddress, row2.FullAddress) < 3
          /\ match_type = "LastNameAddress" =>
               HouseDistance(strip_property_designators(row1.FullAddress),
                             strip_property_designators(row2.FullAddress)) <= 10

\* a LastNameAddress run under the default threshold has ended with no
\* record for an input row whose only master row has the same names and
\* street and a house number more than 10 away
C25_Witness ==
  /\ pc = "done"
  /\ ~threshold_arg.given
  /\ match_type = "LastNameAddress"
  /\ Len(df1) = 1 /\ Len(df2) = 1
  /\ df1[1].First_Name = df2[1].First_Name
  /\ df1[1].Last_Name = df2[1].Last_Name /\ df1[1].Last_Name # << >>
  /\ HouseDistance(df1[1].FullAddress, df2[1].FullAddress) > 10
  /\ AfterHouse(df1[1].FullAddress) = AfterHouse(df2[1].FullAddress)
  /\ results = << >>

(***************************************************************************)
(* C26: the early stop of the candidate loop                               *)
(***************************************************************************)
\* the approximate score reaches 0.8 x the threshold in force
ReachesCutoff(score) == 10 * score >= 8 * ThresholdInForce(threshold_arg, match_type)

\* C26: the shortlist is in descending order of approximate score, and when
\* the candidate loop is left the candidates rescored (those before cpos)
\* are exactly the shortlisted candidates whose approximate score is at
\* least 0.8 x threshold; every remaining one is below it.
C26_EarlyStopSafe ==
  [][(pc = "cand" /\ pc' # "cand" /\ pc' # "raised") =>
       /\ \A j, k \in 1..Len(candidates) :
            j < k => candidates[j].score >= candidates[k].score
       /\ \A j \in 1..Len(candidates) :
            j < cpos <=> ReachesCutoff(candidates[j].score)]_vars

\* the loop is about to stop early: a candidate has been rescored and the
\* next one is below the cut-off, with another one behind it
C26_Witness ==
  /\ pc = "cand"
  /\ cpos > 1
  /\ cpos < Len(candidates)
  /\ ~ReachesCutoff(candidates[cpos].score)
  /\ ReachesCutoff(candidates[cpos - 1].score)

(***************************************************************************)
(* C27: threshold 0.0                                                      *)
(***************************************************************************)
\* C27: a run with threshold 0.0 over a master table with an eligible row
\* has a record for every input row (under FullAddress: for every input row
\* with a FullAddress), also when every candidate of the row scores 0.
C27_ThresholdZeroIncludesAll ==
  (pc = "done" /\ threshold_arg.given /\ threshold_arg.value = 0
     /\ Eligible(df2, match_type) # {})
    => \A i \in 0..(Len(df1) - 1) :
         (match_type = "FullAddress" => df1[i + 1].FullAddress # << >>)
           => RecordsOf(i) # {}

(***************************************************************************)
(* C28: the rows a record reports                                          *)
(***************************************************************************)
\* f"{First_Name} {Last_Name}".strip()
NameOf(row) == Strip(row.First_Name \o << " " >> \o row.Last_Name)

\* C28: 'Sheet A Row' - 2 is an index of the input table and 'Sheet B Row'
\* - 2 an index of the master table as it was passed, rows without
\* FullAddress counted, and the names and addresses of the record are those
\* of the rows at these two indices.
C28_OriginalPositions ==
  \A k \in 1..Len(results) :
    LET a == results[k].Sheet_A_Row - 2
        b == results[k].Sheet_B_Row - 2
    IN  /\ a \in 0..(Len(df1) - 1)
        /\ b \in 0..(Len(df2) - 1)
        /\ results[k].Name_A = NameOf(df1[a + 1])
        /\ results[k].Address_A = df1[a + 1].FullAddress
        /\ results[k].Name_B = NameOf(df2[b + 1])
        /\ results[k].Address_B = df2[b + 1].FullAddress

\* an address strategy over a master table whose first row has no
\* FullAddress has matched the second input row with the second master row
C28_Witness ==
  /\ pc = "done"
  /\ match_type \in {"FullAddress", "LastNameAddress"}
  /\ Len(df2) = 2 /\ df2[1].FullAddress = << >> /\ df2[2].FullAddress # << >>
  /\ df2[1].Last_Name # df2[2].Last_Name
  /\ \E k \in 1..Len(results) :
       results[k].Sheet_A_Row = 3 /\ results[k].Sheet_B_Row = 3

C30_Terminates ==
  /\ (match_type \in {"FullName", "LastNameAddress", "FullAddress"}) ~> (pc = "done")
  /\ <>(pc \in {"done", "raised"})
  /\ [][/\ idx1' \in {idx1, idx1 + 1}
        /\ (pc = "row" /\ pc' # "raised") => (pc' # "row" \/ idx1' = idx1 + 1)
        /\ pc' = "done" => idx1' = Len(df1)]_vars
  /\ [](/\ pc = "cand" => cpos - 1 <= 10
        /\ rescored <= 10 * Len(df1)
        /\ pc \in {"row", "cand"} => rescored <= 10 * idx1 + (cpos - 1)
        /\ (pc = "done" /\ (df1 = << >> \/ df2 = << >>)) => results = << >>)

\* a run over two input rows and the 11-row master table has ended after 20
\* rescorings
C30_Witness ==
  /\ pc = "done"
  /\ Len(df1) = 2
  /\ Len(df2) > 10
  /\ rescored = 20
====
